---- MODULE Spec2Model ----
(***************************************************************************)
(* TCMS simulation over a websocket relay.                                 *)
(*                                                                         *)
(*   network_bus.py  NetworkMVB_Bus: connect, send_message, listen         *)
(*   mvb_server.py   the relay: handler, connected_clients                 *)
(*   simulation.py   process_network_messages, the actuator setters        *)
(*   nodes.py        ActuatorNode / ControlUnitNode receive_message        *)
(*   mvb_sim.py      the single-file revision of the same program          *)
(*                                                                         *)
(* Time is counted in tenths of a second.  A coroutine that sleeps wakes   *)
(* at the instant its delay expires and message hand-over between the      *)
(* relay and the bus takes no time: the clock advances only when no        *)
(* coroutine has a step it could take at the current instant.              *)
(***************************************************************************)
EXTENDS Integers, Sequences, FiniteSets, TLC

\* ---- bounds ----
MaxSends    == 2    \* send_message calls made by the simulation (Spec)
MaxRelaySends == 1  \* the same, in the runs with a second relay client
MaxPeerMsgs == 1    \* envelopes injected by the second relay client
MaxCloses   == 1    \* connections the network may break
MaxSendTime == 1    \* last instant at which the simulation calls send_message
MaxTime     == 11   \* last instant of the clock (tenths of a second)
MaxConns    == 3    \* connections the relay accepts in one run
MaxInFlight == 3    \* envelopes on their way from the relay to the bus (DrainSpec)
MaxClock    == 23   \* last instant of the clock in the runs of the nodes alone
MaxOutbox   == 3    \* send_message_func calls the nodes make in one run
MaxCommandClock == 11  \* last instant of the clock in the runs of the control unit
MaxLossClock == 7  \* last instant of the clock in the runs of the nodes on the bus
MaxTrainClock == 30  \* last instant of the clock in the runs of the train
MaxStationClock == 75  \* last instant of the clock in the runs of a train that stops and leaves

\* ---- program constants (tenths of a second) ----
MIN_DELAY       == 1   \* 0.1 s
MAX_DELAY       == 5   \* 0.5 s
RECONNECT_DELAY == 10  \* listen(): asyncio.sleep(1)
NUM_DOORS       == 4
COOLDOWN        == 10  \* send_command: 1.0 s
TRANSMISSION_TIME == 5 \* update_transmissions: 0.5 s
DWELL_TIME      == 10  \* Train.DWELL_TIME: 1 s
LEAVING_COOLDOWN == 50 \* Train.LEAVING_COOLDOWN: 5.0 s
STATION_DISTANCE == 3000000  \* 300 pixels, in units of 1/10000

\* random.uniform(MIN_DELAY, MAX_DELAY): the two ends of the interval
Delays == {MIN_DELAY, MAX_DELAY}

ConnIds == 1..MaxConns
None    == 0

\* Envelopes that do not come from a send_message call of this bus carry
\* the ids above PeerIdBase.
PeerIdBase == MaxSends + MaxRelaySends

ABSENT == "(absent)"     \* the key "real_target" is not in the dict
NULL   == "(null)"       \* the key is present with the value null

\* ---- node names ----
NoReceiveNames == {"Speed", "DoorS0", "DoorS1", "DoorS2", "DoorS3", "Pass", "Station"}
DoorActuators  == {"DoorActuator0", "DoorActuator1", "DoorActuator2", "DoorActuator3"}
ActuatorNames  == {"Traction", "Brake", "Emerg"} \cup DoorActuators

\* main(): nodes = sensors + actuators + [control_unit]; names are unique,
\* so the first match of the dispatch loop is the only match.
NodeNames == NoReceiveNames \cup ActuatorNames \cup {"Control"}

\* hasattr(node, 'receive_message')
HasReceive(n) == n \in ActuatorNames \cup {"Control"}

\* simulate_tcms(): the nodes of the single-file revision
MvbSimDoorActuators == {"DoorA0", "DoorA1", "DoorA2", "DoorA3"}
MvbSimNodeNames == NoReceiveNames \cup {"Traction", "Brake", "Emerg"}
                     \cup MvbSimDoorActuators \cup {"Control"}

\* ---- wire items ----
\* id, via, sentAt and expiresAt are not in the JSON: they name the
\* send_message call the dict comes from, the way it reached the inbox, the
\* instant of the call and the instant its asyncio.sleep(delay) ends (0: none).
Msg(i, s, t, rt, m) ==
  [kind |-> "msg", id |-> i, via |-> "wire", sentAt |-> 0, expiresAt |-> 0,
   sender |-> s, target |-> t, real_target |-> rt, message |-> m]

RegisterMsg(name) ==
  [kind |-> "register", id |-> 0, via |-> "wire", sentAt |-> 0, expiresAt |-> 0,
   sender |-> name, target |-> "",
   real_target |-> "", message |-> ""]

NoMsg == Msg(0, "", "", "", "")

\* send_network_message(sender, target, message) as the simulation calls it:
\* sensors report to Control, Control commands the actuators.
SimSends ==
  { <<"Speed",   "Control", "Speed:10.0">>,
    <<"DoorS0",  "Control", "Door0:Open">>,
    <<"Control", "Brake",   "Apply Brakes">> }

\* What a second client of the relay puts on the wire: <<sender, target,
\* real_target, message>>.
PeerSends ==
  { <<"Control", "SimulationBus", "DoorA0", "Open Door0">>,
    <<"Control", "SimulationBus", "DoorActuator0", "Open Door0">>,
    <<"Control", "SimulationBus", "Speed",  "Apply Brakes">>,
    <<"Control", "SimulationBus", "Brake",  "Apply Brakes">> }

PeerNames == {"SimulationBus", "Peer"}
RelayNames == PeerNames

VARIABLES
  now,                \* the clock
  calls,              \* the send_message coroutines, in call order
  websocket,          \* NetworkMVB_Bus.websocket: None or a connection
  received_messages,  \* NetworkMVB_Bus.received_messages (the inbox)
  transmissions,      \* NetworkMVB_Bus.transmissions
  listener,           \* the listen() coroutine
  conn,               \* the relay's connections and their handler coroutines
  connected_clients,  \* mvb_server.connected_clients
  peerSent,           \* envelopes the second client has sent
  closes,             \* connections broken so far
  last_message,       \* ActuatorNode.last_message per actuator
  train,              \* the Train fields the setters write
  control,            \* the ControlUnitNode fields receive_message writes
  dispatched,         \* the receive_message calls of the latest drain, in order
  crashed,            \* an exception has left the tick loop
  setter_calls,       \* the set_state_func calls of the latest drain, in order
  sensors,            \* SensorNode.last_send_time / last_value per sensor
  reading,            \* what each sensor's read_state_func returns now
  outbox,             \* the send_message_func calls the nodes have made
  panel,              \* the ControlUnitNode fields the buttons write
  station,            \* Train.at_station / leaving_station
  returned,           \* the latest send_command call: its arguments and result
  tick                \* where the tick loop stands inside a frame taken step by step

vars == <<now, calls, websocket, received_messages, transmissions, listener, conn,
          connected_clients, peerSent, closes, last_message, train, control,
          dispatched, crashed, setter_calls, sensors, reading, outbox, panel,
          station, returned, tick>>

busVars  == <<calls, websocket, received_messages, transmissions, listener>>
uiVars   == <<sensors, reading, outbox, panel, station, returned>>
nodeVars == <<last_message, train, control, dispatched, crashed, setter_calls, uiVars,
              tick>>
netVars  == <<calls, websocket, received_messages, transmissions, listener, conn,
              connected_clients, peerSent, closes>>

\* ---- the nodes' own fields ----
\* create_sensor_nodes: the sensors modelled, with their interval (tenths)
SensorNames == {"Speed", "Station"}

Interval(s) == IF s = "Speed" THEN 5 ELSE 10

\* What read_state_func can return for each sensor.
Readings(s) ==
  IF s = "Speed" THEN {"Speed:0.0", "Speed:10.0"} ELSE {"Station:No", "Station:Yes"}

NONE == "(None)"

\* SensorNode.__init__; run_value, run_samples and run_sends follow the
\* current run of equal samples: the value sampled, the number of samples
\* and the sends made during the run.
NewSensor ==
  [last_send_time |-> 0, last_value |-> NONE, run_value |-> NONE, run_samples |-> 0,
   run_sends |-> 0]

\* ControlUnitNode.__init__, the fields the buttons and send_command write
NewPanel ==
  [last_commands |-> [k \in {} |-> 0], display_message |-> "",
   approaching_station |-> FALSE, brakes_applied |-> FALSE,
   emergency_stop |-> FALSE, emergency_stops_count |-> 0]

\* None, for a field that holds a time
NoTime == 0 - 1

\* Train.__init__, the fields update() keeps besides those the setters
\* write.  speed in thousandths of a m/s, distance_traveled in units of
\* 1/10000 of a pixel, times in tenths of a second.  held_since is the first
\* of the latest updates, without a gap, that found the train near a station
\* and slow; left_at is the instant at_station last changed to False.
NewTrain ==
  [speed |-> 0, distance_traveled |-> 0, at_station |-> FALSE,
   station_stop_time |-> NoTime, leaving_station |-> FALSE,
   leaving_station_time |-> NoTime, held_since |-> NoTime, left_at |-> NoTime]

UiInit ==
  /\ sensors = [s \in SensorNames |-> NewSensor]
  /\ reading = [s \in SensorNames |-> IF s = "Speed" THEN "Speed:0.0" ELSE "Station:No"]
  /\ outbox = <<>>
  /\ panel = NewPanel
  /\ station = NewTrain
  /\ returned = [target |-> "", message |-> "", value |-> FALSE]
  /\ setter_calls = <<>>

\* The tick loop between two frames.  msg: the dict the loop holds; idx: its
\* position in the list it walks; processed: processed_messages; copy: the
\* ids of the dicts in self.transmissions[:].  handled and done are history:
\* the ids of the dicts dispatched, and of those taken out of the inbox;
\* program: which of the two main loops this run is a run of;
\* previous_at_station: the local variable of main.
NewTick ==
  [program |-> "", pc |-> "idle", previous_at_station |-> FALSE, msg |-> Msg(0, "", "", "", ""), idx |-> 0, processed |-> <<>>,
   copy |-> <<>>, handled |-> <<>>, done |-> <<>>]

FreeConn == [st |-> "free", owner |-> "none", node_name |-> "", up |-> <<>>,
             down |-> <<>>, hpc |-> "none", cur |-> NoMsg, wake |-> 0]

Init ==
  /\ now = 0
  /\ calls = <<>>
  /\ websocket = None
  /\ received_messages = <<>>
  /\ transmissions = <<>>
  /\ listener = [pc |-> "receive", ws |-> None, wake |-> 0]
  /\ conn = [c \in ConnIds |-> FreeConn]
  /\ connected_clients = [n \in RelayNames |-> None]
  /\ peerSent = 0
  /\ closes = 0
  /\ last_message = [a \in ActuatorNames |-> "(None)"]
  /\ train = [target_speed |-> "0.0", brakes_applied |-> FALSE, emergency_stop |-> FALSE,
              doors |-> [i \in 0..(NUM_DOORS - 1) |-> FALSE]]
  /\ control = [current_speed |-> "0.0",
                door_states |-> [i \in 0..(NUM_DOORS - 1) |-> FALSE],
                passengers |-> "0", at_station |-> FALSE]
  /\ dispatched = <<>>
  /\ crashed = FALSE
  /\ tick = NewTick
  /\ UiInit

\* ------------------------------------------------------------------------
\* NetworkMVB_Bus.connect
\* ------------------------------------------------------------------------
FreeIds == {c \in ConnIds : conn[c].st = "free"}

Lowest(S) == CHOOSE c \in S : \A d \in S : c <= d

\* websockets.connect succeeded and the registration message is on its way.
Opened(name, who) ==
  [FreeConn EXCEPT !.st = "open", !.owner = who, !.hpc = "reg",
                   !.up = <<RegisterMsg(name)>>]

\* The connection connect() obtains: a new connection of the relay, or None
\* when the relay accepts no more connections (the except branch).
ConnectResult == IF FreeIds = {} THEN None ELSE Lowest(FreeIds)

ConnAfterConnect ==
  IF ConnectResult = None THEN conn
  ELSE [conn EXCEPT ![ConnectResult] = Opened("SimulationBus", "bus")]

\* ------------------------------------------------------------------------
\* NetworkMVB_Bus.send_message
\* ------------------------------------------------------------------------
LocalEchoExempt == {"Speed", "Station", "Pass"}

\* "Cache command messages locally": the copy put in the inbox at once.
EchoOf(i, c) ==
  [Msg(i, c.sender, "SimulationBus", c.target, c.message)
     EXCEPT !.via = "echo", !.sentAt = c.sentAt, !.expiresAt = c.wake]

InboxAfterEcho(inbox, i, c) ==
  IF c.sender \notin LocalEchoExempt THEN Append(inbox, EchoOf(i, c)) ELSE inbox

NewCall(e) ==
  [sender |-> e[1], target |-> e[2], message |-> e[3], pc |-> "connecting",
   sentAt |-> now, wake |-> 0, registered |-> FALSE, placed |-> 0]

\* SimulationBus is mapped by the relay to the connection the bus holds.
BusRegistered ==
  /\ websocket # None
  /\ conn[websocket].st = "open"
  /\ connected_clients["SimulationBus"] = websocket

\* From the local echo to the start of the sleep: no await in between.
\* lost: the outcome of random.random() < PACKET_LOSS_PROB
\* d: random.uniform(MIN_DELAY, MAX_DELAY)
\* reg: whether the relay maps SimulationBus to the bus's connection now
\* placed counts the puts of this call's dict into received_messages.
AfterLossDraw(c, lost, d, reg) ==
  [c EXCEPT !.pc = IF lost THEN "lost" ELSE "sleep",
            !.wake = IF lost THEN 0 ELSE now + d,
            !.registered = reg,
            !.placed = IF c.sender \notin LocalEchoExempt THEN 1 ELSE 0]

\* The tick loop calls send_network_message; the coroutine runs up to its
\* first await.
SendMessage(e) ==
  /\ now <= MaxSendTime
  /\ ~crashed
  /\ IF websocket = None
     THEN /\ calls' = Append(calls, NewCall(e))
          /\ UNCHANGED received_messages
     ELSE \E lost \in BOOLEAN, d \in Delays :
            LET c == AfterLossDraw(NewCall(e), lost, d, BusRegistered) IN
            /\ calls' = Append(calls, c)
            /\ received_messages' = InboxAfterEcho(received_messages, Len(calls) + 1, c)
  /\ UNCHANGED <<now, websocket, transmissions, listener, conn, connected_clients,
                 peerSent, closes, nodeVars>>

\* await self.connect() returns inside send_message.
SendConnected(i) ==
  /\ calls[i].pc = "connecting"
  /\ websocket' = ConnectResult
  /\ conn' = ConnAfterConnect
  /\ IF ConnectResult = None
     THEN /\ calls' = [calls EXCEPT ![i].pc = "noconn"]
          /\ UNCHANGED received_messages
     ELSE \E lost \in BOOLEAN, d \in Delays :
            LET c == AfterLossDraw(calls[i], lost, d, FALSE) IN
            /\ calls' = [calls EXCEPT ![i] = c]
            /\ received_messages' = InboxAfterEcho(received_messages, i, c)
  /\ UNCHANGED <<now, transmissions, listener, connected_clients, peerSent, closes,
                 nodeVars>>

WireOf(i, c) ==
  [Msg(i, c.sender, "SimulationBus", c.target, c.message)
     EXCEPT !.sentAt = c.sentAt, !.expiresAt = c.wake]

\* id is not in the dict: it names the send_message call.  progress is
\* counted in units of 1 / TRANSMISSION_TIME.
NewTransmission(i, c) ==
  [id |-> i, sender |-> c.sender, target |-> c.target, message |-> c.message,
   progress |-> 0]

\* asyncio.sleep(delay) is over: await self.websocket.send(json.dumps(data))
SendWake(i) ==
  /\ calls[i].pc = "sleep"
  /\ calls[i].wake <= now
  /\ IF websocket = None
     THEN \* None has no send(): AttributeError, which nothing catches
          /\ calls' = [calls EXCEPT ![i].pc = "error", ![i].wake = 0]
          /\ UNCHANGED <<websocket, conn, transmissions>>
     ELSE IF conn[websocket].st # "open"
     THEN \* websockets.ConnectionClosed
          /\ calls' = [calls EXCEPT ![i].pc = "closed", ![i].wake = 0]
          /\ websocket' = None
          /\ UNCHANGED <<conn, transmissions>>
     ELSE /\ calls' = [calls EXCEPT ![i].pc = "sent", ![i].wake = 0]
          /\ conn' = [conn EXCEPT ![websocket].up = Append(@, WireOf(i, calls[i]))]
          /\ transmissions' = Append(transmissions, NewTransmission(i, calls[i]))
          /\ UNCHANGED websocket
  /\ UNCHANGED <<now, received_messages, listener, connected_clients, peerSent, closes,
                 nodeVars>>

\* ------------------------------------------------------------------------
\* NetworkMVB_Bus.listen / receive_message
\* ------------------------------------------------------------------------
\* receive_message up to its first await, with self.websocket = ws.
ListenerAt(ws) ==
  IF ws = None THEN [pc |-> "connecting", ws |-> None, wake |-> 0]
  ELSE [pc |-> "recv", ws |-> ws, wake |-> 0]

ListenerEnter ==
  /\ listener.pc = "receive"
  /\ listener' = ListenerAt(websocket)
  /\ UNCHANGED <<now, calls, websocket, received_messages, transmissions, conn,
                 connected_clients, peerSent, closes, nodeVars>>

\* receive_message: await self.connect() returns
ListenerConnected ==
  /\ listener.pc = "connecting"
  /\ websocket' = ConnectResult
  /\ conn' = ConnAfterConnect
  /\ listener' = IF ConnectResult = None
                 THEN [pc |-> "backoff", ws |-> None, wake |-> now + RECONNECT_DELAY]
                 ELSE [pc |-> "recv", ws |-> ConnectResult, wake |-> 0]
  /\ UNCHANGED <<now, calls, received_messages, transmissions, connected_clients,
                 peerSent, closes, nodeVars>>

\* if msg: self.received_messages.put(msg), then the next receive_message
ListenerRecv ==
  /\ listener.pc = "recv"
  /\ conn[listener.ws].st = "open"
  /\ conn[listener.ws].down # <<>>
  /\ received_messages' = Append(received_messages, Head(conn[listener.ws].down))
  /\ conn' = [conn EXCEPT ![listener.ws].down = Tail(@)]
  /\ listener' = ListenerAt(websocket)
  /\ calls' = LET i == Head(conn[listener.ws].down).id IN
              IF i \in 1..Len(calls) THEN [calls EXCEPT ![i].placed = @ + 1] ELSE calls
  /\ UNCHANGED <<now, websocket, transmissions, connected_clients, peerSent,
                 closes, nodeVars>>

\* recv() raises ConnectionClosed: self.websocket = None, return None, and
\* listen() starts asyncio.sleep(1)
ListenerClosed ==
  /\ listener.pc = "recv"
  /\ conn[listener.ws].st = "closed"
  /\ websocket' = None
  /\ listener' = [pc |-> "backoff", ws |-> None, wake |-> now + RECONNECT_DELAY]
  /\ UNCHANGED <<now, calls, received_messages, transmissions, conn, connected_clients,
                 peerSent, closes, nodeVars>>

\* listen(): the sleep is over, await self.connect() starts
ListenerBackoffOver ==
  /\ listener.pc = "backoff"
  /\ listener.wake <= now
  /\ listener' = [listener EXCEPT !.pc = "reconnecting"]
  /\ UNCHANGED <<now, calls, websocket, received_messages, transmissions, conn,
                 connected_clients, peerSent, closes, nodeVars>>

\* listen(): await self.connect() returns, the loop calls receive_message
ListenerReconnected ==
  /\ listener.pc = "reconnecting"
  /\ websocket' = ConnectResult
  /\ conn' = ConnAfterConnect
  /\ listener' = ListenerAt(ConnectResult)
  /\ UNCHANGED <<now, calls, received_messages, transmissions, connected_clients,
                 peerSent, closes, nodeVars>>

\* ------------------------------------------------------------------------
\* mvb_server.handler, one coroutine per connection
\* ------------------------------------------------------------------------
\* reg_data.get("register"); connected_clients[node_name] = websocket
Registered(clients, name, c) == [clients EXCEPT ![name] = c]

HandlerRegister(c) ==
  /\ conn[c].hpc = "reg"
  /\ conn[c].st = "open"
  /\ conn[c].up # <<>>
  /\ LET name == Head(conn[c].up).sender IN
       /\ connected_clients' = Registered(connected_clients, name, c)
       /\ conn' = [conn EXCEPT ![c].node_name = name, ![c].up = Tail(@),
                               ![c].hpc = "loop"]
  /\ UNCHANGED <<now, busVars, peerSent, closes, nodeVars>>

\* async for message in websocket: the relay's own loss draw, then the start
\* of its own asyncio.sleep(delay)
HandlerRecv(c) ==
  /\ conn[c].hpc = "loop"
  /\ conn[c].st = "open"
  /\ conn[c].up # <<>>
  /\ \E lost \in BOOLEAN, d \in Delays :
       conn' = [conn EXCEPT ![c].up = Tail(@),
                            ![c].hpc = IF lost THEN "loop" ELSE "sleep",
                            ![c].cur = IF lost THEN NoMsg ELSE Head(conn[c].up),
                            ![c].wake = IF lost THEN 0 ELSE now + d]
  /\ UNCHANGED <<now, busVars, connected_clients, peerSent, closes, nodeVars>>

\* finally: if node_name in connected_clients: del connected_clients[node_name]
Unregistered(clients, name) ==
  IF clients[name] # None THEN [clients EXCEPT ![name] = None] ELSE clients

\* A relay that looks the inner address up.
RouteByRealTarget(m) == m.real_target

\* target = data.get("target")
RouteKey(m) == m.target

\* if target in connected_clients: forward to connected_clients[target]
HandlerForward(c) ==
  /\ conn[c].hpc = "sleep"
  /\ conn[c].wake <= now
  /\ LET m == conn[c].cur
         known == RouteKey(m) \in DOMAIN connected_clients
         dest == IF known THEN connected_clients[RouteKey(m)] ELSE None
     IN IF dest = None
        THEN \* "Target not connected"
             /\ conn' = [conn EXCEPT ![c].hpc = "loop", ![c].cur = NoMsg, ![c].wake = 0]
             /\ UNCHANGED connected_clients
        ELSE IF conn[dest].st = "open"
        THEN /\ conn' = [conn EXCEPT ![c].hpc = "loop", ![c].cur = NoMsg, ![c].wake = 0,
                                     ![dest].down = Append(@, m)]
             /\ UNCHANGED connected_clients
        ELSE \* send() raises ConnectionClosed: the handler of c leaves its
             \* loop, runs finally, and the server closes c
             /\ conn' = [conn EXCEPT ![c].hpc = "done", ![c].cur = NoMsg, ![c].wake = 0,
                                     ![c].st = "closed", ![c].up = <<>>,
                                     ![c].down = <<>>]
             /\ connected_clients' = Unregistered(connected_clients, conn[c].node_name)
  /\ UNCHANGED <<now, busVars, peerSent, closes, nodeVars>>

\* The connection has gone: the loop ends and finally runs.  Before the
\* registration was read, recv() raises outside the try block.
HandlerClosed(c) ==
  /\ conn[c].st = "closed"
  /\ conn[c].hpc \in {"reg", "loop"}
  /\ connected_clients' = IF conn[c].hpc = "loop"
                          THEN Unregistered(connected_clients, conn[c].node_name)
                          ELSE connected_clients
  /\ conn' = [conn EXCEPT ![c].hpc = "done"]
  /\ UNCHANGED <<now, busVars, peerSent, closes, nodeVars>>

\* ------------------------------------------------------------------------
\* The environment: a second client of the relay, and the network
\* ------------------------------------------------------------------------
PeerConnect(name) ==
  /\ FreeIds # {}
  /\ \A c \in ConnIds : ~(conn[c].owner = "peer" /\ conn[c].st = "open")
  /\ conn' = [conn EXCEPT ![Lowest(FreeIds)] = Opened(name, "peer")]
  /\ UNCHANGED <<now, busVars, connected_clients, peerSent, closes, nodeVars>>

PeerSend(c, e) ==
  /\ conn[c].owner = "peer"
  /\ conn[c].st = "open"
  /\ peerSent < MaxPeerMsgs
  /\ now <= MaxSendTime
  /\ peerSent' = peerSent + 1
  /\ conn' = [conn EXCEPT ![c].up =
                Append(@, Msg(PeerIdBase + peerSent + 1, e[1], e[2], e[3], e[4]))]
  /\ UNCHANGED <<now, busVars, connected_clients, closes, nodeVars>>

\* The network breaks a connection; what was in flight on it is gone.
CloseConn(c) ==
  /\ conn[c].st = "open"
  /\ closes < MaxCloses
  /\ closes' = closes + 1
  /\ conn' = [conn EXCEPT ![c].st = "closed", ![c].up = <<>>, ![c].down = <<>>]
  /\ UNCHANGED <<now, busVars, connected_clients, peerSent, nodeVars>>

\* ------------------------------------------------------------------------
\* The clock
\* ------------------------------------------------------------------------
CoroutineReady ==
  \/ \E i \in 1..Len(calls) :
       \/ calls[i].pc = "connecting"
       \/ calls[i].pc = "sleep" /\ calls[i].wake <= now
  \/ listener.pc \in {"receive", "connecting", "reconnecting"}
  \/ listener.pc = "backoff" /\ listener.wake <= now
  \/ listener.pc = "recv" /\ (conn[listener.ws].down # <<>> \/ conn[listener.ws].st = "closed")
  \/ \E c \in ConnIds :
       \/ conn[c].st = "open" /\ conn[c].hpc \in {"reg", "loop"} /\ conn[c].up # <<>>
       \/ conn[c].st = "closed" /\ conn[c].hpc \in {"reg", "loop"}
       \/ conn[c].hpc = "sleep" /\ conn[c].wake <= now

\* Something is still to happen at a later instant.
Waiting ==
  \/ \E i \in 1..Len(calls) : calls[i].pc = "sleep"
  \/ \E c \in ConnIds : conn[c].hpc = "sleep"
  \/ listener.pc = "backoff"

Tick ==
  /\ ~CoroutineReady
  /\ Waiting
  /\ now < MaxTime
  /\ now' = now + 1
  /\ UNCHANGED <<busVars, conn, connected_clients, peerSent, closes, nodeVars>>

\* ------------------------------------------------------------------------
\* Payload strings.  `sub in message` and message.split(":") are tabulated
\* for the payloads and the substrings the program uses.
\* ------------------------------------------------------------------------
Split(m) ==
  CASE m = "Speed:10.0" -> <<"Speed", "10.0">>
    [] m = "Speed:0.0" -> <<"Speed", "0.0">>
    [] m = "Door0:Open" -> <<"Door0", "Open">>
    [] m = "Door0:Closed" -> <<"Door0", "Closed">>
    [] m = "Door9:Open" -> <<"Door9", "Open">>
    [] m = "Mode:Auto" -> <<"Mode", "Auto">>
    [] m = "Passengers:1" -> <<"Passengers", "1">>
    [] m = "Station:Yes" -> <<"Station", "Yes">>
    [] m = "Station:No" -> <<"Station", "No">>
    [] m = "Set Target Speed:22.22" -> <<"Set Target Speed", "22.22">>
    [] m = "Set Target Speed:0" -> <<"Set Target Speed", "0">>
    [] OTHER -> <<m>>

Substrings ==
  { <<"Speed:", "Speed:10.0">>, <<"Speed:", "Set Target Speed:22.22">>,
    <<"Speed:", "Set Target Speed:0">>,
    <<"Set Target Speed:", "Set Target Speed:22.22">>,
    <<"Set Target Speed:", "Set Target Speed:0">>,
    <<"Door", "Door0:Open">>, <<"Door", "Door0:Closed">>, <<"Door", "Door9:Open">>,
    <<"Door", "Open Door0">>, <<"Door", "Close Door0">>,
    <<"Open", "Open">>, <<"Open", "Open Door0">>, <<"Open", "Door0:Open">>,
    <<"Open Door0", "Open Door0">>, <<"Close Door0", "Close Door0">>,
    <<"Open Door1", "Open Door1">>, <<"Close Door1", "Close Door1">>,
    <<"Open Door2", "Open Door2">>, <<"Close Door2", "Close Door2">>,
    <<"Open Door3", "Open Door3">>, <<"Close Door3", "Close Door3">>,
    <<"Door", "Open Door1">>, <<"Door", "Close Door1">>,
    <<"Door", "Open Door2">>, <<"Door", "Close Door2">>,
    <<"Door", "Open Door3">>, <<"Door", "Close Door3">>,
    <<"Open", "Open Door1">>, <<"Open", "Open Door2">>, <<"Open", "Open Door3">>,
    <<"Passengers:", "Passengers:1">>,
    <<"Station:", "Station:Yes">>, <<"Station:", "Station:No">>,
    <<"Yes", "Yes">>, <<"Yes", "Station:Yes">>,
    <<"Speed:", "Speed:0.0">>,
    <<"Emergency Stop", "Emergency Stop">>,
    <<"Emergency Stop", "Emergency Stop 1">>, <<"Emergency Stop", "Emergency Stop 2">>,
    <<"Emergency Stop", "Emergency Stop 3">>, <<"Emergency Stop", "Emergency Stop 4">>,
    <<"Emergency Stop", "Emergency Stop 5">> }

In(sub, m) == <<sub, m>> \in Substrings

\* float(text) as the number it denotes, written the way Python prints it
Float(text) == IF text = "0" THEN "0.0" ELSE text

\* int(text[-1]) for the keys that end in a digit; -1 stands for ValueError
LastDigit(text) ==
  CASE text = "Door0" -> 0
    [] text = "Door9" -> 9
    [] text = "Open Door0" -> 0
    [] text = "Close Door0" -> 0
    [] OTHER -> -1

\* Door actuators that all act on the index the loop ended with.
DoorIndexLast(a) == NUM_DOORS - 1

\* lambda msg, i=i: set_door_state(msg, i), for the actuator named a
DoorIndex(a) ==
  CASE a \in {"DoorActuator0", "DoorA0"} -> 0
    [] a \in {"DoorActuator1", "DoorA1"} -> 1
    [] a \in {"DoorActuator2", "DoorA2"} -> 2
    [] a \in {"DoorActuator3", "DoorA3"} -> 3

DoorText(i) == CASE i = 0 -> "0" [] i = 1 -> "1" [] i = 2 -> "2" [] i = 3 -> "3"

OpenDoor(i)  == CASE i = 0 -> "Open Door0" [] i = 1 -> "Open Door1"
                  [] i = 2 -> "Open Door2" [] i = 3 -> "Open Door3"
CloseDoor(i) == CASE i = 0 -> "Close Door0" [] i = 1 -> "Close Door1"
                  [] i = 2 -> "Close Door2" [] i = 3 -> "Close Door3"

\* ------------------------------------------------------------------------
\* simulation.create_actuator_nodes: the setters
\* ------------------------------------------------------------------------
set_target_speed(t, msg) ==
  IF In("Set Target Speed:", msg) THEN [t EXCEPT !.target_speed = Float(Split(msg)[2])]
  ELSE t

set_brake_state(t, msg) ==
  IF msg = "Apply Brakes" THEN [t EXCEPT !.brakes_applied = TRUE]
  ELSE IF msg = "Release Brakes" THEN [t EXCEPT !.brakes_applied = FALSE]
  ELSE t

set_emergency_state(t, msg) ==
  IF In("Emergency Stop", msg)
  THEN [t EXCEPT !.emergency_stop = TRUE, !.target_speed = "0.0"]
  ELSE t

set_door_state(t, msg, door_idx) ==
  IF In(OpenDoor(door_idx), msg) THEN [t EXCEPT !.doors[door_idx] = TRUE]
  ELSE IF In(CloseDoor(door_idx), msg) THEN [t EXCEPT !.doors[door_idx] = FALSE]
  ELSE t

set_state_func(a, t, msg) ==
  CASE a = "Traction" -> set_target_speed(t, msg)
    [] a = "Brake" -> set_brake_state(t, msg)
    [] a = "Emerg" -> set_emergency_state(t, msg)
    [] OTHER -> set_door_state(t, msg, DoorIndex(a))

\* ------------------------------------------------------------------------
\* nodes.py: receive_message.  ns is the state of all endpoints:
\* [last_message, train, control, dispatched, crashed].
\* ------------------------------------------------------------------------
\* ControlUnitNode.receive_message; raised: an exception leaves the method
ControlReceive(cu, message) ==
  IF In("Speed:", message)
  THEN [cu |-> [cu EXCEPT !.current_speed = Float(Split(message)[2])], raised |-> FALSE]
  ELSE IF In("Door", message)
  THEN LET door_num == LastDigit(Split(message)[1]) IN
       IF door_num \notin 0..(NUM_DOORS - 1) \/ Len(Split(message)) < 2
       THEN [cu |-> cu, raised |-> TRUE]
       ELSE [cu |-> [cu EXCEPT !.door_states[door_num] = In("Open", Split(message)[2])],
             raised |-> FALSE]
  ELSE IF In("Passengers:", message)
  THEN [cu |-> [cu EXCEPT !.passengers = Split(message)[2]], raised |-> FALSE]
  ELSE IF In("Station:", message)
  THEN [cu |-> [cu EXCEPT !.at_station = In("Yes", Split(message)[2])], raised |-> FALSE]
  ELSE [cu |-> cu, raised |-> FALSE]

\* An actuator that invokes its setter on every delivery.
ActuatorReceiveAlways(ns, a, message) ==
  [ns EXCEPT !.train = set_state_func(a, ns.train, message),
             !.setter_calls = Append(@, [node |-> a, message |-> message]),
             !.last_message[a] = message]

\* ActuatorNode.receive_message: a is the key of last_message, msg arrives
ActuatorReceive(ns, a, message) ==
  IF message # ns.last_message[a]
  THEN [ns EXCEPT !.train = set_state_func(a, ns.train, message),
                  !.setter_calls = Append(@, [node |-> a, message |-> message]),
                  !.last_message[a] = message]
  ELSE ns

\* The log of receive_message calls: the node called, the payload passed,
\* and the dict (its id, real_target and origin) the payload was taken from.
CallEntry(node, msg) ==
  [node |-> node, message |-> msg.message, id |-> msg.id, via |-> msg.via,
   real_target |-> msg.real_target]

Logged(ns, node, msg) == [ns EXCEPT !.dispatched = Append(@, CallEntry(node, msg))]

\* node.receive_message(msg["message"]) on the node called `node`
ReceiveMessage(ns, node, key, msg) ==
  IF node = "Control"
  THEN LET r == ControlReceive(ns.control, msg.message) IN
       [Logged(ns, node, msg) EXCEPT !.control = r.cu, !.crashed = r.raised]
  ELSE ActuatorReceive(Logged(ns, node, msg), key, msg.message)

\* ------------------------------------------------------------------------
\* simulation.process_network_messages
\* ------------------------------------------------------------------------
\* Routing by the outer target field alone.
TargetOnly(msg) == msg.target

\* Routing a dict without a real_target back to its sender.
RealTargetOrSender(msg) ==
  IF msg.real_target \in {ABSENT, NULL} THEN msg.sender ELSE msg.real_target

\* msg.get("real_target", msg.get("target"))
IntendedTarget(msg) == IF msg.real_target = ABSENT THEN msg.target ELSE msg.real_target

\* for node in nodes: if hasattr(node, 'receive_message') and node.name == ...
Dispatch(ns, msg) ==
  LET intended_target == IntendedTarget(msg) IN
  IF intended_target \in NodeNames /\ HasReceive(intended_target)
  THEN ReceiveMessage(ns, intended_target, intended_target, msg)
  ELSE ns

RECURSIVE ProcessAll(_, _)
\* while not received_messages.empty(): get, dispatch.  An exception ends
\* the loop with the rest still queued.
ProcessAll(ns, inbox) ==
  IF inbox = <<>> \/ ns.crashed THEN [ns |-> ns, rest |-> inbox]
  ELSE ProcessAll(Dispatch(ns, Head(inbox)), Tail(inbox))

\* dispatched and setter_calls start empty: they list the calls of one drain
NodeState ==
  [last_message |-> last_message, train |-> train, control |-> control,
   dispatched |-> <<>>, crashed |-> crashed, setter_calls |-> <<>>]

SetNodeState(ns) ==
  /\ last_message' = ns.last_message
  /\ train' = ns.train
  /\ control' = ns.control
  /\ dispatched' = ns.dispatched
  /\ crashed' = ns.crashed
  /\ setter_calls' = ns.setter_calls

\* One call of process_network_messages from the tick loop.
Drain ==
  /\ ~crashed
  /\ LET r == ProcessAll(NodeState, received_messages) IN
       /\ SetNodeState(r.ns)
       /\ received_messages' = r.rest
  /\ UNCHANGED <<now, calls, websocket, transmissions, listener, conn,
                 connected_clients, peerSent, closes, uiVars, tick>>

\* ------------------------------------------------------------------------
\* mvb_sim.simulate_tcms: the loop over received_messages
\* ------------------------------------------------------------------------
MvbSimKey(n) ==
  CASE n = "DoorA0" -> "DoorActuator0" [] n = "DoorA1" -> "DoorActuator1"
    [] n = "DoorA2" -> "DoorActuator2" [] n = "DoorA3" -> "DoorActuator3"
    [] OTHER -> n

\* if hasattr(node, 'name') and node.name == intended_target:
\*     node.receive_message(...)   -- a SensorNode has no such method
MvbSimDispatch(ns, msg) ==
  LET intended_target == IntendedTarget(msg) IN
  IF intended_target \notin MvbSimNodeNames THEN ns
  ELSE IF intended_target \in NoReceiveNames THEN [ns EXCEPT !.crashed = TRUE]
  ELSE ReceiveMessage(ns, intended_target, MvbSimKey(intended_target), msg)

RECURSIVE MvbSimProcessAll(_, _)
MvbSimProcessAll(ns, inbox) ==
  IF inbox = <<>> \/ ns.crashed THEN ns
  ELSE MvbSimProcessAll(MvbSimDispatch(ns, Head(inbox)), Tail(inbox))

\* The processed messages are removed after the loop, so an exception in
\* the loop leaves all of them in the list.
MvbSimDrain ==
  /\ ~crashed
  /\ LET ns == MvbSimProcessAll(NodeState, received_messages) IN
       /\ SetNodeState(ns)
       /\ received_messages' = IF ns.crashed THEN received_messages ELSE <<>>
  /\ UNCHANGED <<now, calls, websocket, transmissions, listener, conn,
                 connected_clients, peerSent, closes, uiVars, tick>>

\* ------------------------------------------------------------------------
\* Specifications
\* ------------------------------------------------------------------------
\* The simulation alone on the relay, and a network that stays up.
BusAlone ==
  \/ \E i \in 1..Len(calls) : SendConnected(i)
  \/ \E i \in 1..Len(calls) : SendWake(i)
  \/ ListenerEnter
  \/ ListenerConnected
  \/ ListenerRecv
  \/ \E c \in ConnIds : HandlerRegister(c)
  \/ \E c \in ConnIds : HandlerRecv(c)
  \/ \E c \in ConnIds : HandlerForward(c)
  \/ Tick

Next ==
  \/ \E e \in SimSends : Len(calls) < MaxSends /\ SendMessage(e)
  \/ BusAlone
  \/ Drain

Spec == Init /\ [][Next]_vars

\* With a second client of the relay.
Shared ==
  \/ \E e \in SimSends : Len(calls) < MaxRelaySends /\ SendMessage(e)
  \/ BusAlone
  \/ \E n \in PeerNames : PeerConnect(n)
  \/ \E c \in ConnIds, e \in PeerSends : PeerSend(c, e)

RelayNext == Shared \/ Drain

RelaySpec == Init /\ [][RelayNext]_vars

\* ------------------------------------------------------------------------
\* The drain on its own: the bus is connected and registered, and the relay
\* has forwarded some envelopes that the listener has not read yet.
\* ------------------------------------------------------------------------
WireEnvelopes ==
  { <<"Control", "SimulationBus", "Brake", "Apply Brakes">>,
    <<"Control", "SimulationBus", "Brake", "Release Brakes">>,
    <<"Speed",   "SimulationBus", "Control", "Speed:10.0">>,
    <<"Control", "SimulationBus", "DoorActuator0", "Open Door0">>,
    <<"Control", "SimulationBus", "DoorA0", "Open Door0">>,
    <<"Control", "SimulationBus", "Speed", "Apply Brakes">>,
    <<"Control", "SimulationBus", "Ghost", "Release Brakes">>,
    <<"Control", "SimulationBus", ABSENT, "Apply Brakes">>,
    <<"Control", "SimulationBus", NULL, "Release Brakes">> }

Numbered(q) ==
  [k \in 1..Len(q) |-> Msg(PeerIdBase + k, q[k][1], q[k][2], q[k][3], q[k][4])]

InFlight ==
  UNION { [1..n -> WireEnvelopes] : n \in 0..MaxInFlight }

DrainInit ==
  /\ now = 0
  /\ calls = <<>>
  /\ websocket = 1
  /\ received_messages = <<>>
  /\ transmissions = <<>>
  /\ listener = [pc |-> "recv", ws |-> 1, wake |-> 0]
  /\ \E q \in InFlight :
       conn = [c \in ConnIds |->
                 IF c = 1
                 THEN [FreeConn EXCEPT !.st = "open", !.owner = "bus", !.hpc = "loop",
                                       !.node_name = "SimulationBus",
                                       !.down = Numbered(q)]
                 ELSE FreeConn]
  /\ connected_clients = [n \in RelayNames |-> IF n = "SimulationBus" THEN 1 ELSE None]
  /\ peerSent = 0
  /\ closes = 0
  /\ last_message = [a \in ActuatorNames |-> "(None)"]
  /\ train = [target_speed |-> "0.0", brakes_applied |-> FALSE, emergency_stop |-> FALSE,
              doors |-> [i \in 0..(NUM_DOORS - 1) |-> FALSE]]
  /\ control = [current_speed |-> "0.0",
                door_states |-> [i \in 0..(NUM_DOORS - 1) |-> FALSE],
                passengers |-> "0", at_station |-> FALSE]
  /\ dispatched = <<>>
  /\ crashed = FALSE
  /\ tick = NewTick
  /\ UiInit

DrainNext == ListenerRecv \/ Drain

DrainSpec == DrainInit /\ [][DrainNext]_vars

MvbSimNext == ListenerRecv \/ MvbSimDrain

MvbSimSpec == DrainInit /\ [][MvbSimNext]_vars

\* ========================================================================
\* Claims
\* ========================================================================
CallIds == 1..Len(calls)

\* The loss draw of call i did not fire.
PassedLossDraw(i) == calls[i].pc \in {"sleep", "sent", "closed", "error"}

\* The dict of call i is somewhere between the bus and the inbox.
OnTheWay(i) ==
  \/ calls[i].pc = "sleep"
  \/ \E c \in ConnIds :
       \/ \E k \in 1..Len(conn[c].up) : conn[c].up[k].id = i
       \/ \E k \in 1..Len(conn[c].down) : conn[c].down[k].id = i
       \/ conn[c].hpc = "sleep" /\ conn[c].cur.id = i

\* C1: no duplication -- the dict of one send_message call is put into
\* received_messages at most once, whoever the sender is.
C1_NoDuplication == \A i \in CallIds : calls[i].placed <= 1

\* C2: eventual delivery, its safety half -- an envelope that passed the
\* sender-side loss draw while the bus was connected and registered is on
\* its way or has been put in the inbox: nothing after the draw discards it.
C2_NothingDiscardsAfterLossDraw ==
  \A i \in CallIds :
    (PassedLossDraw(i) /\ calls[i].registered) => (OnTheWay(i) \/ calls[i].placed >= 1)

\* C3: silent discard -- an envelope whose loss draw fired is never put in
\* the inbox (so no receive_message ever sees it); send_message just returns.
C3_LostNeverInInbox ==
  \A i \in CallIds : calls[i].pc = "lost" => calls[i].placed = 0

\* The dicts a step appends to the inbox that come from a call of this bus.
IsPut(m) ==
  /\ Len(received_messages') > Len(received_messages)
  /\ m = received_messages'[Len(received_messages')]
  /\ m.id \in 1..Len(calls')

\* C4: delay bounds -- a dict enters the inbox no earlier than MIN_DELAY and
\* no later than MAX_DELAY after its send_message call, payload unchanged.
C4_DelayBounds ==
  [][\A i \in 1..Len(calls') :
       LET m == received_messages'[Len(received_messages')] IN
       (IsPut(m) /\ m.id = i) =>
          /\ now' - calls'[i].sentAt >= MIN_DELAY
          /\ now' - calls'[i].sentAt <= MAX_DELAY
          /\ m.message = calls'[i].message]_vars

\* C5: delivery order is delay-expiry order -- the dicts in the inbox that
\* come from send_message calls of this bus whose loss draw passed (expiresAt
\* is the end of their delay) stand in the order in which their delays
\* expired, and none is there before its own delay has expired.
C5_ExpiryOrder ==
  \A k \in 1..Len(received_messages) :
    LET m == received_messages[k] IN
    (m.id \in CallIds /\ m.expiresAt # 0) =>
      /\ m.expiresAt <= now
      /\ \A j \in 1..(k - 1) :
           (received_messages[j].id \in CallIds /\ received_messages[j].expiresAt # 0) =>
             received_messages[j].expiresAt <= m.expiresAt

\* C7: scenario E -- with exactly one send pending (its loss draw passed),
\* the inbox holds nothing of it while its delay runs, and once MAX_DELAY
\* has elapsed since the call it has been put there exactly once.
C7_ScenarioE ==
  (Len(calls) = 1 /\ PassedLossDraw(1)) =>
     /\ calls[1].pc = "sleep" => calls[1].placed = 0
     /\ now >= calls[1].sentAt + MAX_DELAY + 1 => calls[1].placed = 1

\* ---- the drain ----
EndpointState == <<last_message, train, control>>

CarriesRealTarget(m) == m.real_target \notin {ABSENT, NULL}

RECURSIVE CallsFor(_, _)
\* One receive_message call, on the node named by real_target, for every
\* dict of q whose real_target is in the set `able`, in the order of q.
CallsFor(q, able) ==
  IF q = <<>> THEN <<>>
  ELSE IF CarriesRealTarget(Head(q)) /\ Head(q).real_target \in able
       THEN <<CallEntry(Head(q).real_target, Head(q))>> \o CallsFor(Tail(q), able)
       ELSE CallsFor(Tail(q), able)

RECURSIVE Carrying(_)
Carrying(q) ==
  IF q = <<>> THEN <<>>
  ELSE IF CarriesRealTarget(Head(q)) THEN <<Head(q)>> \o Carrying(Tail(q))
       ELSE Carrying(Tail(q))

AbleNodes == {n \in NodeNames : HasReceive(n)}
MvbSimAbleNodes == MvbSimNodeNames \ NoReceiveNames

\* C6: the drain -- one pass over the inbox (the loop of simulate_tcms)
\* dispatches, in inbox order, every dict that was present and leaves the
\* inbox empty; a pass over an empty inbox calls nothing and changes no
\* endpoint.
C6_DrainAll ==
  [][MvbSimDrain =>
       /\ received_messages' = <<>>
       /\ dispatched' = CallsFor(received_messages, MvbSimAbleNodes)
       /\ received_messages = <<>> => UNCHANGED EndpointState]_vars

\* C6 for simulation.process_network_messages
C6_DrainAllSimulation ==
  [][Drain =>
       /\ received_messages' = <<>>
       /\ dispatched' = CallsFor(received_messages, AbleNodes)
       /\ received_messages = <<>> => UNCHANGED EndpointState]_vars

\* C8: dispatch correctness -- for the drained dicts that carry a
\* real_target, the receive_message calls of a drain are exactly one call per
\* dict on the endpoint named by real_target, and none on any other endpoint.
C8_DispatchByRealTarget ==
  [][Drain =>
       /\ dispatched' = CallsFor(Carrying(received_messages), AbleNodes)
       /\ \A k \in 1..Len(dispatched') :
            dispatched'[k].node = dispatched'[k].real_target]_vars

\* A drain has called Brake.receive_message for a dict whose real_target is
\* "Brake" (its target is "SimulationBus"), and the brakes are applied.
C8_Witness ==
  \E k \in 1..Len(dispatched) :
    /\ dispatched[k].node = "Brake"
    /\ dispatched[k].real_target = "Brake"
    /\ dispatched[k].message = "Apply Brakes"
    /\ train.brakes_applied

\* No endpoint of the node list `able` can receive what m is meant for.
Undeliverable(m, able) == IntendedTarget(m) \notin able

\* C9: unknown recipient -- a dict meant for a name that no endpoint able to
\* receive bears (an unregistered name, a sensor's name) raises nothing and
\* calls nothing, a pass that finds only such dicts changes no endpoint, and
\* the other dicts of the same pass are still dispatched.
C9_UnknownRecipientHarmless ==
  [][(MvbSimDrain /\ \E k \in 1..Len(received_messages) :
                        Undeliverable(received_messages[k], MvbSimAbleNodes)) =>
       /\ ~crashed'
       /\ \A k \in 1..Len(received_messages) :
            LET m == received_messages[k] IN
            IF Undeliverable(m, MvbSimAbleNodes)
            THEN \A j \in 1..Len(dispatched') : dispatched'[j].id # m.id
            ELSE \E j \in 1..Len(dispatched') : dispatched'[j].id = m.id
       /\ (\A k \in 1..Len(received_messages) :
              Undeliverable(received_messages[k], MvbSimAbleNodes))
            => UNCHANGED EndpointState]_vars

\* C9 for simulation.process_network_messages
C9_UnknownRecipientHarmlessSimulation ==
  [][(Drain /\ \E k \in 1..Len(received_messages) :
                  Undeliverable(received_messages[k], AbleNodes)) =>
       /\ ~crashed'
       /\ \A k \in 1..Len(received_messages) :
            LET m == received_messages[k] IN
            IF Undeliverable(m, AbleNodes)
            THEN \A j \in 1..Len(dispatched') : dispatched'[j].id # m.id
            ELSE \E j \in 1..Len(dispatched') : dispatched'[j].id = m.id
       /\ (\A k \in 1..Len(received_messages) :
              Undeliverable(received_messages[k], AbleNodes))
            => UNCHANGED EndpointState]_vars

\* C10: duplicate registration -- a node id mapped to a live connection
\* stays mapped to that connection for as long as it is live, whoever else
\* registers the id.
C10_FirstRegistrationStays ==
  [][\A n \in RelayNames :
       LET c == connected_clients[n] IN
       (c # None /\ conn[c].st = "open" /\ conn'[c].st = "open")
          => connected_clients'[n] = c]_vars

\* ========================================================================
\* The nodes on their own: sensors, commands, buttons
\* ========================================================================
\* send_message_func(sender, target, message) as the nodes call it; at is
\* the instant of the call.
Sent(sender, target, message) ==
  [sender |-> sender, target |-> target, message |-> message, at |-> now]

\* pygame.time.get_ticks() moves on between two frames.
Elapse ==
  /\ now < MaxClock
  /\ now' = now + 1
  /\ UNCHANGED <<netVars, nodeVars>>

\* ------------------------------------------------------------------------
\* nodes.SensorNode.update
\* ------------------------------------------------------------------------
\* A sensor that publishes whatever it samples.
PublishesAlways(last_value, msg) == TRUE

\* if msg != self.last_value
Publishes(last_value, msg) == msg # last_value

\* The sensor's fields after update(current_time, ...) when read_state_func
\* returns msg.
SensorAfterUpdate(sn, s, msg, current_time) ==
  IF current_time - sn.last_send_time > Interval(s)
  THEN LET pub == Publishes(sn.last_value, msg) IN
       [sn EXCEPT !.last_value = IF pub THEN msg ELSE @,
                  !.last_send_time = current_time,
                  !.run_value = msg,
                  !.run_samples = (IF msg = sn.run_value THEN @ ELSE 0) + 1,
                  !.run_sends = (IF msg = sn.run_value THEN @ ELSE 0)
                                  + (IF pub THEN 1 ELSE 0)]
  ELSE sn

\* The send_message_func calls of that update.
SensorSends(sn, s, msg, current_time) ==
  IF current_time - sn.last_send_time > Interval(s) /\ Publishes(sn.last_value, msg)
  THEN <<Sent(s, "Control", msg)>>
  ELSE <<>>

SensorUpdate(s) ==
  /\ Len(outbox) < MaxOutbox
  /\ sensors' = [sensors EXCEPT ![s] = SensorAfterUpdate(@, s, reading[s], now)]
  /\ outbox' = outbox \o SensorSends(sensors[s], s, reading[s], now)
  /\ UNCHANGED <<now, netVars, last_message, train, control, dispatched, crashed,
                 setter_calls, tick, reading, panel, station, returned>>

\* The train's state moves on: read_state_func returns something else.
ReadingChange(s, r) ==
  /\ r # reading[s]
  /\ reading' = [reading EXCEPT ![s] = r]
  /\ UNCHANGED <<now, netVars, last_message, train, control, dispatched, crashed,
                 setter_calls, tick, sensors, outbox, panel, station, returned>>

SensorNext ==
  \/ \E s \in SensorNames : SensorUpdate(s)
  \/ \E s \in SensorNames : \E r \in Readings(s) : ReadingChange(s, r)
  \/ Elapse

SensorSpec == Init /\ [][SensorNext]_vars

\* The payloads sensor s has published, in order.
PublishedBy(s) == SelectSeq(outbox, LAMBDA e : e.sender = s)

\* C12: sensor suppression -- during a run of update calls that sample the
\* same reading the sensor sends at most one envelope, and two consecutive
\* envelopes of one sensor never carry the same payload.
C12_SensorSuppression ==
  \A s \in SensorNames :
    /\ sensors[s].run_sends <= 1
    /\ \A k \in 1..(Len(PublishedBy(s)) - 1) :
         PublishedBy(s)[k].message # PublishedBy(s)[k + 1].message

\* A sensor has published twice and has then sampled its latest reading a
\* second time without publishing it again.
C12_Witness ==
  \E s \in SensorNames :
    /\ sensors[s].run_samples >= 2
    /\ sensors[s].run_sends = 1
    /\ Len(PublishedBy(s)) >= 2

\* C13: frame of update -- one call sends at most once, and a call that does
\* not publish (interval not elapsed, or the sample equals last_value) leaves
\* last_send_time and last_value as they were.
C13_UpdateFrame ==
  [][\A s \in SensorNames :
       SensorUpdate(s) =>
         /\ Len(outbox') <= Len(outbox) + 1
         /\ Len(outbox') = Len(outbox) =>
              /\ sensors'[s].last_send_time = sensors[s].last_send_time
              /\ sensors'[s].last_value = sensors[s].last_value]_vars

\* ========================================================================
\* The relay's registry, with connections that break
\* ========================================================================
RegistryNext ==
  \/ ListenerEnter
  \/ ListenerConnected
  \/ ListenerRecv
  \/ ListenerClosed
  \/ ListenerBackoffOver
  \/ ListenerReconnected
  \/ \E c \in ConnIds : HandlerRegister(c)
  \/ \E c \in ConnIds : HandlerRecv(c)
  \/ \E c \in ConnIds : HandlerForward(c)
  \/ \E c \in ConnIds : HandlerClosed(c)
  \/ \E n \in PeerNames : PeerConnect(n)
  \/ \E c \in ConnIds, e \in PeerSends : PeerSend(c, e)
  \/ \E c \in ConnIds : CloseConn(c)
  \/ Tick

RegistrySpec == Init /\ [][RegistryNext]_vars

\* The handler of connection c has read its registration and has not ended.
InLoop(c) == conn[c].hpc \in {"loop", "sleep"}

\* No two live connections have registered the same node id.
NoDuplicateIds ==
  \A c, d \in ConnIds :
    (c # d /\ conn[c].st = "open" /\ conn[d].st = "open"
       /\ conn[c].node_name # "" /\ conn[d].node_name # "")
      => conn[c].node_name # conn[d].node_name

\* The mapping of a live registered connection is there, an ended connection
\* is mapped to nothing, and a mapping changes only through the connection it
\* names: it is set by that connection's registration and, while that
\* connection is live, it is not replaced or removed.
LifetimeStep ==
  /\ \A c \in ConnIds :
       (conn'[c].st = "open" /\ InLoop(c)') => connected_clients'[conn'[c].node_name] = c
  /\ \A n \in RelayNames :
       LET c == connected_clients[n]
           d == connected_clients'[n]
       IN /\ d # None => conn'[d].hpc # "done"
          /\ c # d =>
               /\ c # None => conn'[c].st # "open"
               /\ d # None => (conn[d].hpc = "reg" /\ conn'[d].hpc = "loop")

\* C11: registration lifetime -- for every connection that registered node
\* id n, the mapping n -> that connection is there from its registration
\* until that connection disconnects and is removed then; no event on
\* another connection adds, replaces or removes it.
C11_RegistrationLifetime == [][LifetimeStep]_vars

\* C11 as long as no node id is registered by two live connections
C11_LifetimeWithoutDuplicates == [][(NoDuplicateIds /\ NoDuplicateIds') => LifetimeStep]_vars

\* ------------------------------------------------------------------------
\* Actuators
\* ------------------------------------------------------------------------
RECURSIVE SetterCallsFor(_, _)
\* The setter calls that the receive_message calls of log must make when the
\* actuators' last received payloads are `last` before the first of them:
\* one for each payload that differs from the payload its actuator received
\* last.  [calls, last]: the calls and the last payloads afterwards.
SetterCallsFor(log, last) ==
  IF log = <<>> THEN [calls |-> <<>>, last |-> last]
  ELSE LET e == Head(log) IN
       IF e.node \notin ActuatorNames THEN SetterCallsFor(Tail(log), last)
       ELSE IF e.message = last[e.node] THEN SetterCallsFor(Tail(log), last)
       ELSE LET r == SetterCallsFor(Tail(log), [last EXCEPT ![e.node] = e.message]) IN
            [r EXCEPT !.calls = <<[node |-> e.node, message |-> e.message]>> \o @]

\* C14: actuator idempotence -- receive_message invokes the setter and
\* records the payload exactly when the payload differs from the payload the
\* actuator received last; a payload delivered a second time invokes no
\* setter and changes neither the actuator nor the train.
C14_ActuatorIdempotence ==
  [][Drain =>
       LET r == SetterCallsFor(dispatched', last_message) IN
       /\ setter_calls' = r.calls
       /\ last_message' = r.last
       /\ r.calls = <<>> => train' = train]_vars

\* One drain has delivered "Apply Brakes" to Brake twice and the setter has
\* been invoked once.
C14_Witness ==
  /\ Len(dispatched) = 2
  /\ \A k \in 1..2 : dispatched[k].node = "Brake" /\ dispatched[k].message = "Apply Brakes"
  /\ setter_calls = <<[node |-> "Brake", message |-> "Apply Brakes"]>>
  /\ train.brakes_applied

\* ------------------------------------------------------------------------
\* nodes.ControlUnitNode.send_command
\* ------------------------------------------------------------------------
\* command_key = f"{target}:{message}"
CommandKey(target, message) == target \o ":" \o message

\* A control unit without cooldown.
CooldownOverAlways(last_commands, command_key, current_time) == TRUE

\* command_key not in self.last_commands or
\* current_time - self.last_commands[command_key] > 1.0
CooldownOver(last_commands, command_key, current_time) ==
  \/ command_key \notin DOMAIN last_commands
  \/ current_time - last_commands[command_key] > COOLDOWN

\* self.last_commands[command_key] = current_time
Recorded(last_commands, command_key, current_time) ==
  [k \in DOMAIN last_commands \cup {command_key} |->
     IF k = command_key THEN current_time ELSE last_commands[k]]

\* The part of the state a button click works on.
UiState == [panel |-> panel, outbox |-> outbox, returned |-> returned, station |-> station]

\* send_command(target, message, send_message_func) at the instant `now`
send_command(st, target, message) ==
  LET command_key == CommandKey(target, message) IN
  IF CooldownOver(st.panel.last_commands, command_key, now)
  THEN [st EXCEPT !.outbox = Append(@, Sent("Control", target, message)),
                  !.panel.last_commands = Recorded(@, command_key, now),
                  !.returned = [target |-> target, message |-> message, value |-> TRUE]]
  ELSE [st EXCEPT !.returned = [target |-> target, message |-> message, value |-> FALSE]]

SetUiState(st) ==
  /\ panel' = st.panel
  /\ outbox' = st.outbox
  /\ returned' = st.returned
  /\ station' = st.station

\* What callers pass to send_command: the commands of the program, and a
\* pair with another target whose key reads the same as that of the third.
Commands ==
  { <<"Brake", "Apply Brakes">>,
    <<"Traction", "Set Target Speed:22.22">>,
    <<"Traction", "Set Target Speed:0">>,
    <<"Traction:Set Target Speed", "0">> }

\* One call of send_command.
SendCommand(target, message) ==
  /\ Len(outbox) < MaxOutbox
  /\ SetUiState(send_command(UiState, target, message))
  /\ UNCHANGED <<now, netVars, last_message, train, control, dispatched, crashed,
                 setter_calls, tick, sensors, reading>>

\* ------------------------------------------------------------------------
\* nodes.ControlUnitNode.on_button_click
\* ------------------------------------------------------------------------
CRUISING_SPEED == "22.22"

\* self.current_speed < 1.0, for the speeds the reports carry
BelowOne(speed) == speed \in {"0", "0.0"}

RECURSIVE DoorCommands(_, _, _)
\* for i in range(NUM_DOORS): self.send_command(f"DoorActuator{i}", f"<verb> Door{i}", ...)
DoorCommands(st, verb, i) ==
  IF i = NUM_DOORS THEN st
  ELSE DoorCommands(send_command(st, "DoorActuator" \o DoorText(i),
                                 verb \o " Door" \o DoorText(i)), verb, i + 1)

\* A control unit that does not look at its doors.
DoorsIgnored(door_states) == TRUE

\* all(not state for state in self.door_states)
DoorsClosed(door_states) == \A i \in 0..(NUM_DOORS - 1) : ~door_states[i]

\* A panel whose emergency payload is the same at every click.
EmergencyPayloadPlain(n) == "Emergency Stop"

\* f"Emergency Stop {self.emergency_stops_count}"
EmergencyPayload(n) == "Emergency Stop " \o ToString(n)

on_button_click(st, button) ==
  CASE button = "Start Moving" ->
         IF DoorsClosed(control.door_states)
         THEN LET r == send_command(st, "Traction", "Set Target Speed:" \o CRUISING_SPEED) IN
              IF r.returned.value
              THEN [r EXCEPT !.panel.display_message = "Train starting...",
                             !.panel.approaching_station = FALSE,
                             !.station = IF @.at_station
                                         THEN [@ EXCEPT !.at_station = FALSE,
                                                        !.leaving_station = TRUE,
                                                        !.leaving_station_time = now,
                                                        !.left_at = now]
                                         ELSE @]
              ELSE r
         ELSE [st EXCEPT !.panel.display_message = "Cannot start with doors open"]
    [] button = "Apply Brakes" ->
         LET r == send_command(st, "Brake", "Apply Brakes") IN
         IF r.returned.value
         THEN [r EXCEPT !.panel.brakes_applied = TRUE,
                        !.panel.display_message = "Brakes applied",
                        !.panel.approaching_station = TRUE]
         ELSE r
    [] button = "Release Brakes" ->
         LET r == send_command(st, "Brake", "Release Brakes") IN
         IF r.returned.value
         THEN LET q == send_command(
                         [r EXCEPT !.panel.brakes_applied = FALSE,
                                   !.panel.display_message = "Brakes released",
                                   !.panel.approaching_station = FALSE],
                         "Traction", "Set Target Speed:0") IN
              IF q.returned.value
              THEN [q EXCEPT !.panel.display_message =
                      IF st.station.at_station
                      THEN "Brakes released, train holding at station"
                      ELSE IF train.emergency_stop
                      THEN "Brakes released, train in emergency stop"
                      ELSE "Brakes released, train moving"]
              ELSE q
         ELSE r
    [] button = "Open Doors" ->
         IF BelowOne(control.current_speed)
         THEN [DoorCommands(st, "Open", 0) EXCEPT !.panel.display_message = "Opening doors"]
         ELSE [st EXCEPT !.panel.display_message = "Cannot open doors while moving"]
    [] button = "Close Doors" ->
         [DoorCommands(st, "Close", 0) EXCEPT !.panel.display_message = "Closing doors"]
    [] button = "Emergency Stop" ->
         LET n == st.panel.emergency_stops_count + 1
             r == send_command([st EXCEPT !.panel.emergency_stops_count = n],
                               "Emerg", EmergencyPayload(n)) IN
         IF r.returned.value
         THEN [r EXCEPT !.panel.emergency_stop = TRUE,
                        !.panel.display_message = "EMERGENCY STOP ACTIVATED"]
         ELSE r
    [] OTHER -> st

\* constants.BUTTONS: the buttons of the panel
Buttons ==
  {"Start Moving", "Apply Brakes", "Release Brakes", "Open Doors", "Close Doors",
   "Emergency Stop"}

\* handle_events: a click on a button
ButtonClick(button) ==
  /\ ~crashed
  /\ Len(outbox) < MaxOutbox
  /\ SetUiState(on_button_click(UiState, button))
  /\ UNCHANGED <<now, netVars, last_message, train, control, dispatched, crashed,
                 setter_calls, tick, sensors, reading>>

\* What is delivered to Control.receive_message: sensor reports, and payloads
\* with keys that are no report keys.
ControlPayloads ==
  {"Speed:10.0", "Door0:Open", "Door0:Closed", "Mode:Auto", "Set Target Speed:22.22",
   "Door9:Open"}

\* One call of ControlUnitNode.receive_message.
ControlDeliver(message) ==
  /\ ~crashed
  /\ LET r == ControlReceive(control, message) IN
       /\ control' = r.cu
       /\ crashed' = r.raised
  /\ UNCHANGED <<now, netVars, last_message, train, dispatched, setter_calls, tick, uiVars>>

\* Train.update: the train has stopped at a station.
TrainArrives ==
  /\ ~station.at_station
  /\ ~station.leaving_station
  /\ station' = [station EXCEPT !.at_station = TRUE]
  /\ UNCHANGED <<now, netVars, last_message, train, control, dispatched, crashed,
                 setter_calls, tick, sensors, reading, outbox, panel, returned>>

CommandElapse ==
  /\ now < MaxCommandClock
  /\ now' = now + 1
  /\ UNCHANGED <<netVars, nodeVars>>

\* send_command called over time.
CommandNext ==
  \/ \E c \in Commands : SendCommand(c[1], c[2])
  \/ CommandElapse

CommandSpec == Init /\ [][CommandNext]_vars

\* A command the control unit has sent reaches its actuator: the bus has
\* carried it and process_network_messages calls receive_message.
CommandDelivered(k) ==
  /\ ~crashed
  /\ outbox[k].target \in ActuatorNames
  /\ SetNodeState(ActuatorReceive(NodeState, outbox[k].target, outbox[k].message))
  /\ UNCHANGED <<now, netVars, uiVars, tick>>

\* The control unit between two frames: reports arrive, buttons are clicked,
\* commands reach the actuators.
PanelNext ==
  \/ \E b \in Buttons : ButtonClick(b)
  \/ \E m \in ControlPayloads : ControlDeliver(m)
  \/ \E k \in 1..Len(outbox) : CommandDelivered(k)
  \/ TrainArrives

PanelSpec == Init /\ [][PanelNext]_vars

\* The envelopes send_command has sent for the pair (target, message).
SentFor(target, message) ==
  {k \in 1..Len(outbox) : outbox[k].sender = "Control" /\ outbox[k].target = target
                            /\ outbox[k].message = message}

\* C15: cooldown -- of two send_command calls with the identical (target,
\* message) pair made within 1.0 s of each other at most one sends: any two
\* envelopes sent for one pair are more than the cooldown apart.
C15_Cooldown ==
  \A i, j \in 1..Len(outbox) :
    (i < j /\ outbox[i].sender = "Control" /\ outbox[j].sender = "Control"
       /\ outbox[i].target = outbox[j].target /\ outbox[i].message = outbox[j].message)
      => outbox[j].at - outbox[i].at > COOLDOWN

\* The latest call was suppressed inside the window of an envelope sent for
\* the same pair, and an earlier pair has been sent again after its window.
C15_Witness ==
  /\ ~returned.value
  /\ \E k \in SentFor(returned.target, returned.message) : now - outbox[k].at <= COOLDOWN
  /\ \E i, j \in 1..Len(outbox) :
       i < j /\ outbox[i].target = outbox[j].target /\ outbox[i].message = outbox[j].message

RecognizedKey(m) ==
  Split(m)[1] \in {"Speed", "Passengers", "Station", "Door0", "Door1", "Door2", "Door3"}

\* C17: control parsing -- receive_message given a "Key:Value" payload whose
\* key is no report key (Speed, Door<i> with a valid index, Passengers,
\* Station) raises nothing and leaves current_speed, door_states, passengers
\* and at_station as they were.
C17_UnrecognizedKeyIgnored ==
  [][\A m \in ControlPayloads :
       (ControlDeliver(m) /\ Len(Split(m)) = 2 /\ ~RecognizedKey(m))
         => (~crashed' /\ control' = control)]_vars

\* C18: scenario D -- "Start Moving" clicked while the control unit sees a
\* door open sends no command, records no cooldown entry, leaves
\* train.at_station and leaving_station as they were and sets
\* display_message to "Cannot start with doors open".
C18_ScenarioD ==
  [][(ButtonClick("Start Moving") /\ \E i \in 0..(NUM_DOORS - 1) : control.door_states[i])
       => /\ outbox' = outbox
          /\ panel'.last_commands = panel.last_commands
          /\ station' = station
          /\ panel'.display_message = "Cannot start with doors open"]_vars

\* The train is at a station with its brakes applied, door 0 is reported
\* open, "Start Moving" has been refused and no target speed has been sent.
C18_Witness ==
  /\ station.at_station
  /\ train.brakes_applied
  /\ panel.brakes_applied
  /\ control.door_states[0]
  /\ panel.display_message = "Cannot start with doors open"
  /\ SentFor("Traction", "Set Target Speed:" \o CRUISING_SPEED) = {}

\* ========================================================================
\* NetworkMVB_Bus.update_transmissions
\* ========================================================================
\* An update that removes a transmission only once its progress is past 1.0.
UpdateKeepingFinished(ts, delta_time) ==
  LET moved == [k \in 1..Len(ts) |-> [ts[k] EXCEPT !.progress = @ + delta_time]]
  IN SelectSeq(moved, LAMBDA t : t.progress <= TRANSMISSION_TIME)

\* t["progress"] += delta_time / TRANSMISSION_TIME for every transmission,
\* and those with progress >= 1.0 are removed; delta_time in tenths.
update_transmissions(ts, delta_time) ==
  LET moved == [k \in 1..Len(ts) |-> [ts[k] EXCEPT !.progress = @ + delta_time]]
  IN SelectSeq(moved, LAMBDA t : t.progress < TRANSMISSION_TIME)

\* A tenth of a second of frames goes by: update_positions has called
\* update_transmissions for 0.1 s in all.
TickFrame ==
  /\ ~CoroutineReady
  /\ Waiting \/ transmissions # <<>>
  /\ now < MaxTime
  /\ now' = now + 1
  /\ transmissions' = update_transmissions(transmissions, 1)
  /\ UNCHANGED <<calls, websocket, received_messages, listener, conn, connected_clients,
                 peerSent, closes, nodeVars>>

FrameNext ==
  \/ \E e \in SimSends : Len(calls) < MaxRelaySends /\ SendMessage(e)
  \/ \E i \in 1..Len(calls) : SendConnected(i)
  \/ \E i \in 1..Len(calls) : SendWake(i)
  \/ ListenerEnter
  \/ ListenerConnected
  \/ ListenerRecv
  \/ \E c \in ConnIds : HandlerRegister(c)
  \/ \E c \in ConnIds : HandlerRecv(c)
  \/ \E c \in ConnIds : HandlerForward(c)
  \/ TickFrame

FrameSpec == Init /\ [][FrameNext]_vars

InFlightIds(ts) == {ts[k].id : k \in 1..Len(ts)}

\* C19: tick -- update_transmissions(delta_time) adds delta_time / 0.5 to the
\* progress of every in-flight transmission; a transmission whose progress
\* reaches 1.0 leaves the list, and its envelope becomes available in the
\* inbox with that step, never earlier: up to that step it has not been put
\* there.
C19_TickDelivers ==
  [][TickFrame =>
       \A k \in 1..Len(transmissions) :
         LET t == transmissions[k] IN
         IF t.progress + 1 >= TRANSMISSION_TIME
         THEN /\ t.id \notin InFlightIds(transmissions')
              /\ calls[t.id].placed = 0
         ELSE \E j \in 1..Len(transmissions') :
                transmissions'[j] = [t EXCEPT !.progress = @ + 1]]_vars

\* The progress arithmetic of C19 on its own.
C19_ProgressOnly ==
  [][TickFrame =>
       \A k \in 1..Len(transmissions) :
         LET t == transmissions[k] IN
         IF t.progress + 1 >= TRANSMISSION_TIME
         THEN t.id \notin InFlightIds(transmissions')
         ELSE \E j \in 1..Len(transmissions') :
                transmissions'[j] = [t EXCEPT !.progress = @ + 1]]_vars

\* The progress the transmission of call id has in the list ts.
ProgressOf(ts, id) == ts[CHOOSE k \in 1..Len(ts) : ts[k].id = id].progress

\* C27: transmission progress -- a transmission enters the in-flight list
\* with progress 0.0, its progress never decreases from one step to the next,
\* and every transmission in the list has a progress in [0, 1).
C27_TransmissionProgress ==
  [][\A j \in 1..Len(transmissions') :
       LET t == transmissions'[j] IN
       /\ 0 <= t.progress
       /\ t.progress < TRANSMISSION_TIME
       /\ IF t.id \in InFlightIds(transmissions)
          THEN t.progress >= ProgressOf(transmissions, t.id)
          ELSE t.progress = 0]_vars

\* A transmission has been through all the updates it stays in the list
\* for: the next one takes it out.
C27_Witness ==
  \E k \in 1..Len(transmissions) : transmissions[k].progress = TRANSMISSION_TIME - 1

\* ========================================================================
\* The bus with connections that break
\* ========================================================================
CloseNext ==
  \/ \E e \in SimSends : Len(calls) < MaxSends /\ SendMessage(e)
  \/ \E i \in 1..Len(calls) : SendConnected(i)
  \/ \E i \in 1..Len(calls) : SendWake(i)
  \/ ListenerEnter
  \/ ListenerConnected
  \/ ListenerRecv
  \/ ListenerClosed
  \/ ListenerBackoffOver
  \/ ListenerReconnected
  \/ \E c \in ConnIds : HandlerRegister(c)
  \/ \E c \in ConnIds : HandlerRecv(c)
  \/ \E c \in ConnIds : HandlerForward(c)
  \/ \E c \in ConnIds : HandlerClosed(c)
  \/ \E c \in ConnIds : CloseConn(c)
  \/ Tick

CloseSpec == Init /\ [][CloseNext]_vars

\* The send_message call i ended on a connection failure: connect() failed,
\* or the connection was closed or gone when the delay was over.
FailedOnConnection(i) == calls[i].pc \in {"noconn", "closed", "error"}

\* C20: connection failure on send -- the envelope of a send_message call
\* that meets a connection failure is lost: it is never put in the inbox (and
\* so never dispatched).
C20_FailedSendIsLost ==
  \A i \in CallIds : FailedOnConnection(i) => calls[i].placed = 0

\* C20 for the senders whose envelopes are not echoed
C20_FailedSendIsLostWithoutEcho ==
  \A i \in CallIds :
    (FailedOnConnection(i) /\ calls[i].sender \in LocalEchoExempt) => calls[i].placed = 0

\* ========================================================================
\* The nodes on the bus: what a sender sees of its send
\* ========================================================================
\* simulation.send_network_message: run_coroutine_threadsafe schedules
\* send_message and the coroutine runs to its first await.
send_network_message(e) ==
  IF websocket = None
  THEN /\ calls' = Append(calls, NewCall(e))
       /\ UNCHANGED received_messages
  ELSE \E lost \in BOOLEAN, d \in Delays :
         LET c == AfterLossDraw(NewCall(e), lost, d, BusRegistered) IN
         /\ calls' = Append(calls, c)
         /\ received_messages' = InboxAfterEcho(received_messages, Len(calls) + 1, c)

\* What can become of a send_message call.
Outcomes == {"connecting", "noconn", "lost", "sleep", "sent", "closed", "error"}

\* A control unit that reports whether the envelope went out.
ReturnsDelivery(outcome) == outcome \in {"sleep", "sent"}

\* send_command: the result of send_message_func is dropped; return True
Returns(outcome) == TRUE

\* The sender's fields after send_command when the send ends in `outcome`.
CommandView(st, target, message, outcome) ==
  LET r == send_command(st, target, message) IN
  IF r.returned.value THEN [r EXCEPT !.returned.value = Returns(outcome)] ELSE r

\* The envelopes an operation has handed to send_message_func.
NewSends(st) == SubSeq(st.outbox, Len(outbox) + 1, Len(st.outbox))

\* The bus takes the one envelope of the operation, if it sent one.
BusTakes(sends) ==
  IF sends = <<>>
  THEN UNCHANGED <<calls, received_messages>>
  ELSE LET e == sends[1] IN send_network_message(<<e.sender, e.target, e.message>>)

\* The outcome so far of the call the operation has scheduled.
OutcomeOf(cs) == cs[Len(cs)].pc

\* send_command called by the tick loop, on the bus.
CommandOnBus(target, message) ==
  /\ ~crashed
  /\ Len(calls) < MaxSends
  /\ LET r == send_command(UiState, target, message) IN
       /\ BusTakes(NewSends(r))
       /\ SetUiState(IF r.returned.value
                     THEN CommandView(UiState, target, message, OutcomeOf(calls'))
                     ELSE r)
  /\ UNCHANGED <<now, websocket, transmissions, listener, conn, connected_clients,
                 peerSent, closes, last_message, train, control, dispatched, crashed,
                 setter_calls, tick, sensors, reading>>

\* The buttons that send one command.
OneSendButtons == {"Start Moving", "Apply Brakes", "Emergency Stop"}

\* A click on a button, on the bus.
ButtonOnBus(button) ==
  /\ ~crashed
  /\ Len(calls) < MaxSends
  /\ LET r == on_button_click(UiState, button) IN
       /\ BusTakes(NewSends(r))
       /\ SetUiState(r)
  /\ UNCHANGED <<now, websocket, transmissions, listener, conn, connected_clients,
                 peerSent, closes, last_message, train, control, dispatched, crashed,
                 setter_calls, tick, sensors, reading>>

\* SensorNode.update, on the bus.
SensorOnBus(s) ==
  /\ ~crashed
  /\ Len(calls) < MaxSends
  /\ sensors' = [sensors EXCEPT ![s] = SensorAfterUpdate(@, s, reading[s], now)]
  /\ outbox' = outbox \o SensorSends(sensors[s], s, reading[s], now)
  /\ BusTakes(SensorSends(sensors[s], s, reading[s], now))
  /\ UNCHANGED <<now, websocket, transmissions, listener, conn, connected_clients,
                 peerSent, closes, last_message, train, control, dispatched, crashed,
                 setter_calls, tick, reading, panel, station, returned>>

\* A send_message coroutine has a step it can take now.
SendReady ==
  \E i \in 1..Len(calls) :
    \/ calls[i].pc = "connecting"
    \/ calls[i].pc = "sleep" /\ calls[i].wake <= now

\* The frames go on while no send_message coroutine has a step to take.
LossElapse ==
  /\ ~SendReady
  /\ now < MaxLossClock
  /\ now' = now + 1
  /\ UNCHANGED <<netVars, nodeVars>>

LossNext ==
  \/ \E c \in Commands : CommandOnBus(c[1], c[2])
  \/ \E b \in OneSendButtons : ButtonOnBus(b)
  \/ \E s \in SensorNames : SensorOnBus(s)
  \/ \E i \in 1..Len(calls) : SendConnected(i)
  \/ \E i \in 1..Len(calls) : SendWake(i)
  \/ \E c \in ConnIds : CloseConn(c)
  \/ LossElapse

LossSpec == Init /\ [][LossNext]_vars

EMERGENCY_DECEL == 2400  \* 24.0 * delta_time
DECELERATION    == 1200  \* 12.0 * delta_time
ACCELERATION    == 600   \* 6.0 * delta_time
COAST_DECAY     == 1     \* 0.01 * delta_time
EPSILON         == 100   \* 0.1 m/s
THRESHOLD       == 500000  \* 50 pixels

\* random.uniform(-0.01, 0.01) * delta_time: the two ends of the interval
Winds == {0 - 1, 1}

\* main: delta_time = min(now - last_frame_time, 0.1); the frames of a
\* program that is held up take 0.5 s or 1 s, and update gets 0.1 either way.
FrameSteps == {5, 10}

Max0(x) == IF x > 0 THEN x ELSE 0
Min2(x, y) == IF x < y THEN x ELSE y
Abs(x) == IF x < 0 THEN 0 - x ELSE x

\* The number a target_speed text denotes, in thousandths.
Milli(text) == CASE text = "22.22" -> 22220 [] OTHER -> 0

\* min(abs(current_pos - s), total_loop - abs(current_pos - s)) over the
\* three stations.
NearestDistance(distance_traveled) ==
  LET total_loop == STATION_DISTANCE * 3
      current_pos == distance_traveled % total_loop
      d(s) == Min2(Abs(current_pos - s), total_loop - Abs(current_pos - s)) IN
  Min2(d(0), Min2(d(STATION_DISTANCE), d(STATION_DISTANCE * 2)))

\* The speed rule of update: lines 29-42.  t holds the fields the setters
\* write, s the others.
\* A train that ends its emergency stop at the first update.
EmergencyOverAtOnce(speed) == TRUE

\* if self.speed == 0.0: self.emergency_stop = False
EmergencyOver(speed) == speed = 0

SpeedRule(t, s, delta_time, wind_effect) ==
  IF t.emergency_stop
  THEN LET v == Max0(s.speed - EMERGENCY_DECEL * delta_time) IN
       [train |-> [t EXCEPT !.target_speed = "0.0",
                            !.emergency_stop = IF EmergencyOver(v) THEN FALSE ELSE @],
        station |-> [s EXCEPT !.speed = v]]
  ELSE IF t.brakes_applied
  THEN [train |-> t,
        station |-> [s EXCEPT !.speed = Max0(s.speed - DECELERATION * delta_time)]]
  ELSE IF s.at_station
  THEN [train |-> [t EXCEPT !.target_speed = "0.0"],
        station |-> [s EXCEPT !.speed = 0]]
  ELSE IF s.speed < Milli(t.target_speed)
  THEN [train |-> t,
        station |-> [s EXCEPT !.speed =
                       Min2(Milli(t.target_speed),
                            s.speed + ACCELERATION * delta_time + wind_effect * delta_time)]]
  ELSE [train |-> t,
        station |-> [s EXCEPT !.speed =
                       Max0(s.speed - COAST_DECAY * delta_time + wind_effect * delta_time)]]

\* A train without cooldown.
LeavingOverAlways(leaving_station_time, time) == TRUE

\* time.time() - self.leaving_station_time >= self.LEAVING_COOLDOWN
LeavingOver(leaving_station_time, time) ==
  time - leaving_station_time >= LEAVING_COOLDOWN

\* Lines 52-54: the cooldown is over.
CooldownStep(s, time) ==
  IF s.leaving_station /\ LeavingOver(s.leaving_station_time, time)
  THEN [s EXCEPT !.leaving_station = FALSE]
  ELSE s

\* Lines 56-61: the train leaves the station.
LeavingStep(s, time) ==
  IF s.at_station /\ s.speed > EPSILON
  THEN [s EXCEPT !.at_station = FALSE, !.leaving_station = TRUE,
                 !.leaving_station_time = time, !.station_stop_time = NoTime,
                 !.left_at = time]
  ELSE s

\* time.time() - self.station_stop_time >= self.DWELL_TIME
Dwelled(station_stop_time, time) == time - station_stop_time >= DWELL_TIME

\* Lines 63-71: station detection.
DetectionStep(t, s, time) ==
  LET nearest_distance == NearestDistance(s.distance_traveled) IN
  IF nearest_distance < THRESHOLD /\ s.speed < EPSILON /\ ~s.leaving_station
  THEN LET stop == IF s.station_stop_time = NoTime THEN time ELSE s.station_stop_time IN
       IF Dwelled(stop, time)
       THEN [train |-> [t EXCEPT !.target_speed = "0.0"],
             station |-> [s EXCEPT !.station_stop_time = stop, !.at_station = TRUE]]
       ELSE [train |-> t, station |-> [s EXCEPT !.station_stop_time = stop]]
  ELSE IF nearest_distance > THRESHOLD /\ ~s.leaving_station
  THEN [train |-> t,
        station |-> [s EXCEPT !.at_station = FALSE, !.station_stop_time = NoTime,
                              !.left_at = IF s.at_station THEN time ELSE @]]
  ELSE [train |-> t, station |-> s]

\* Train.update(delta_time) at the instant `time`
update(t, s, delta_time, wind_effect, time) ==
  LET a == SpeedRule(t, s, delta_time, wind_effect)
      moved == [a.station EXCEPT !.distance_traveled = @ + a.station.speed * delta_time]
      held == [moved EXCEPT !.held_since =
                 IF NearestDistance(moved.distance_traveled) < THRESHOLD
                      /\ moved.speed < EPSILON
                 THEN (IF @ = NoTime THEN time ELSE @)
                 ELSE NoTime]
      left == LeavingStep(CooldownStep(held, time), time) IN
  DetectionStep(a.train, left, time)

\* One frame of main, as far as the train goes: train.update(delta_time),
\* and the clock moves on.
Frame(step, wind_effect) ==
  /\ LET r == update(train, station, Min2(step, 1), wind_effect, now) IN
       /\ train' = r.train
       /\ station' = r.station
  /\ now' = now + step
  /\ UNCHANGED <<netVars, last_message, control, dispatched, crashed, setter_calls, tick,
                 sensors, reading, outbox, panel, returned>>

TrainFrame(step, wind_effect) ==
  /\ now + step <= MaxTrainClock
  /\ Frame(step, wind_effect)

\* What the actuators are told between two frames.
Actuations ==
  { <<"Traction", "Set Target Speed:22.22">>, <<"Traction", "Set Target Speed:0">>,
    <<"Brake", "Apply Brakes">>, <<"Brake", "Release Brakes">>,
    <<"Emerg", "Emergency Stop 1">> }

\* process_network_messages delivers a command to its actuator.
Actuate(a, msg) ==
  /\ msg # last_message[a]
  /\ SetNodeState(ActuatorReceive(NodeState, a, msg))
  /\ UNCHANGED <<now, netVars, uiVars, tick>>

\* on_button_click("Start Moving") when the command goes out: lines 104-107
StartMovingLeaves ==
  /\ station.at_station
  /\ station' = [station EXCEPT !.at_station = FALSE, !.leaving_station = TRUE,
                                !.leaving_station_time = now, !.left_at = now]
  /\ UNCHANGED <<now, netVars, last_message, train, control, dispatched, crashed,
                 setter_calls, tick, sensors, reading, outbox, panel, returned>>

TrainNext ==
  \/ \E step \in FrameSteps, w \in Winds : TrainFrame(step, w)
  \/ \E c \in Actuations : Actuate(c[1], c[2])
  \/ StartMovingLeaves

TrainSpec == Init /\ [][TrainNext]_vars

\* The speed the four rules give, by priority.
PolicySpeed(t, s, wind_effect) ==
  IF t.emergency_stop THEN Max0(s.speed - EMERGENCY_DECEL)
  ELSE IF t.brakes_applied THEN Max0(s.speed - DECELERATION)
  ELSE IF s.speed < Milli(t.target_speed)
  THEN Min2(Milli(t.target_speed), s.speed + ACCELERATION + wind_effect)
  ELSE Max0(s.speed - COAST_DECAY + wind_effect)

\* C22: train speed policy -- every update applies exactly one of the four
\* rules, by priority emergency stop > service brake > accelerate toward the
\* target (whenever speed < target_speed) > coast; an emergency stop forces
\* the target to 0; the speed is never negative.
C22_SpeedPolicy ==
  [][now' # now =>
       /\ \E w \in Winds : station'.speed = PolicySpeed(train, station, w)
       /\ train.emergency_stop => Milli(train'.target_speed) = 0
       /\ station'.speed >= 0]_vars

\* C22 for the updates of a train that is not at a station
C22_SpeedPolicyAwayFromStation ==
  [][(now' # now /\ ~station.at_station) =>
       /\ \E w \in Winds : station'.speed = PolicySpeed(train, station, w)
       /\ train.emergency_stop => Milli(train'.target_speed) = 0
       /\ station'.speed >= 0]_vars

\* ------------------------------------------------------------------------
\* The train at a station: it stops, dwells, is sent off and comes back
\* ------------------------------------------------------------------------
StationFrame(step, wind_effect) ==
  /\ now + step <= MaxStationClock
  /\ Frame(step, wind_effect)

StationActuations ==
  { <<"Traction", "Set Target Speed:22.22">>, <<"Brake", "Apply Brakes">> }

StationNext ==
  \/ \E step \in FrameSteps, w \in Winds : StationFrame(step, w)
  \/ \E c \in StationActuations : Actuate(c[1], c[2])
  \/ StartMovingLeaves

StationSpec == Init /\ [][StationNext]_vars

\* C23: station entry debounce -- at_station changes from false to true only
\* at an update before which every update for at least DWELL_TIME, without a
\* gap, has found the train nearer than the threshold to a station and slower
\* than 0.1 m/s.
C23_EntryDebounce ==
  [][(~station.at_station /\ station'.at_station) =>
       /\ station'.held_since # NoTime
       /\ now - station'.held_since >= DWELL_TIME]_vars

\* C24: station leave cooldown -- when at_station changes from true to false
\* the cooldown starts at that instant, and at_station does not change to
\* true again before LEAVING_COOLDOWN has elapsed since.
C24_LeaveCooldown ==
  [][/\ (station.at_station /\ ~station'.at_station) =>
          /\ station'.leaving_station
          /\ station'.leaving_station_time = now
          /\ station'.left_at = now
     /\ (~station.at_station /\ station'.at_station) =>
          \/ station.left_at = NoTime
          \/ now - station.left_at >= LEAVING_COOLDOWN]_vars

\* The train was sent off more than DWELL_TIME ago, has been near the
\* station and slow at every update since, and is not at_station.
C24_Witness ==
  /\ ~station.at_station
  /\ station.left_at # NoTime
  /\ station.held_since # NoTime
  /\ station.held_since <= station.left_at
  /\ now - station.left_at > DWELL_TIME
  /\ now - station.left_at < LEAVING_COOLDOWN

\* The train is at the station again after a cooldown.
C24_WitnessBack ==
  /\ station.at_station
  /\ station.left_at # NoTime

\* ========================================================================
\* Dispatch of the dicts that name no real_target
\* ========================================================================
\* The receive_message calls of a drain made for the dict numbered id.
CallsOf(log, id) == SelectSeq(log, LAMBDA e : e.id = id)

DoorActuator(i) == "DoorActuator" \o DoorText(i)

DoorVerbs == {"Open", "Close"}

\* f"Open Door{i}" / f"Close Door{i}"
DoorMessage(verb, i) == verb \o " Door" \o DoorText(i)

\* process_network_messages delivers a door command to the actuator of
\* door i.
DoorDeliver(i, verb) ==
  /\ ~crashed
  /\ SetNodeState(ActuatorReceive(NodeState, DoorActuator(i), DoorMessage(verb, i)))
  /\ UNCHANGED <<now, netVars, uiVars, tick>>

\* Commands reach the actuators, in any order.
DoorNext ==
  \/ \E i \in 0..(NUM_DOORS - 1), verb \in DoorVerbs : DoorDeliver(i, verb)
  \/ \E c \in Actuations : Actuate(c[1], c[2])

DoorSpec == Init /\ [][DoorNext]_vars

\* The train fields other than door i.
OtherThanDoor(t, i) ==
  [t EXCEPT !.doors = [j \in DOMAIN t.doors |-> IF j = i THEN FALSE ELSE t.doors[j]]]

\* C26: per-door binding -- delivering "Open Door<i>" or "Close Door<i>" to
\* DoorActuator<i> leaves door i open, respectively closed, and changes no
\* other door and no other field of the train.
C26_PerDoorBinding ==
  [][\A i \in 0..(NUM_DOORS - 1) : \A verb \in DoorVerbs :
       DoorDeliver(i, verb) =>
         /\ train'.doors[i] = (verb = "Open")
         /\ OtherThanDoor(train', i) = OtherThanDoor(train, i)]_vars

\* "Open Door1" has been delivered to DoorActuator1 and then "Close Door1":
\* door 1 is closed again, and door 2, opened in between, is still open.
C26_Witness ==
  /\ last_message[DoorActuator(1)] = CloseDoor(1)
  /\ last_message[DoorActuator(2)] = OpenDoor(2)
  /\ ~train.doors[1]
  /\ train.doors[2]
  /\ ~train.doors[3]

\* ========================================================================
\* The tick loop step by step, against the asyncio thread
\* ========================================================================
\* The asyncio thread runs the coroutines (ListenerRecv puts into the inbox,
\* SendMessage puts the local echo, SendWake appends to transmissions); the
\* main thread runs the frames.  A step below is one operation that the
\* interpreter does not interrupt: a Queue method, a list method, the next()
\* of a list iterator, or code that touches only what the main thread owns.
MaxInterleaveClock == 7
MaxArrivals == 2

\* Equality of two inbox dicts, and of two transmission dicts.
SameDict(a, b) ==
  /\ a.sender = b.sender /\ a.target = b.target
  /\ a.real_target = b.real_target /\ a.message = b.message

SameTransmission(a, b) ==
  /\ a.sender = b.sender /\ a.target = b.target
  /\ a.message = b.message /\ a.progress = b.progress

IdsOf(l) == [k \in 1..Len(l) |-> l[k].id]

RemoveAt(l, k) == SubSeq(l, 1, k - 1) \o SubSeq(l, k + 1, Len(l))

FirstEqual(l, x, Same(_, _)) ==
  CHOOSE k \in 1..Len(l) : Same(l[k], x) /\ \A j \in 1..(k - 1) : ~Same(l[j], x)

\* The list emptied after the loop, whatever the loop processed.
ClearProcessed(l, msg) == <<>>

\* if msg in received_messages: received_messages.remove(msg)
RemoveProcessed(l, msg) ==
  IF \E k \in 1..Len(l) : SameDict(l[k], msg)
  THEN RemoveAt(l, FirstEqual(l, msg, SameDict))
  ELSE l

\* The ids of the dicts of l that are not in m any more, in order.
Gone(l, m) == SelectSeq(IdsOf(l), LAMBDA i : \A k \in 1..Len(m) : m[k].id # i)

\* The node state during a drain: the calls logged so far are kept.
NodeStateNow ==
  [NodeState EXCEPT !.dispatched = dispatched, !.setter_calls = setter_calls]

\* simulation.main: a frame reaches process_network_messages.
ProcessBegin ==
  /\ tick.pc = "idle"
  /\ ~crashed
  /\ now < MaxInterleaveClock
  /\ now' = now + 1
  /\ tick.program \in {"", "simulation"}
  /\ tick' = [tick EXCEPT !.pc = "empty", !.program = "simulation"]
  /\ SetNodeState(NodeState)
  /\ UNCHANGED <<netVars, uiVars>>

\* while not network_bus.received_messages.empty():
QueueEmpty ==
  /\ tick.pc = "empty"
  /\ ~crashed
  /\ tick' = [tick EXCEPT !.pc = IF received_messages = <<>> THEN "copy" ELSE "get"]
  /\ UNCHANGED <<now, netVars, last_message, train, control, dispatched, crashed,
                 setter_calls, uiVars>>

\* msg = network_bus.received_messages.get()
QueueGet ==
  /\ tick.pc = "get"
  /\ ~crashed
  /\ received_messages # <<>>
  /\ tick' = [tick EXCEPT !.pc = "dispatch", !.msg = Head(received_messages),
                          !.done = Append(@, Head(received_messages).id)]
  /\ received_messages' = Tail(received_messages)
  /\ UNCHANGED <<now, calls, websocket, transmissions, listener, conn,
                 connected_clients, peerSent, closes, last_message, train, control,
                 dispatched, crashed, setter_calls, uiVars>>

\* intended_target = ...; the loop over the nodes
DispatchOne ==
  /\ tick.pc = "dispatch"
  /\ ~crashed
  /\ SetNodeState(Dispatch(NodeStateNow, tick.msg))
  /\ tick' = [tick EXCEPT !.pc = "empty", !.msg = NoMsg,
                          !.handled = Append(@, tick.msg.id)]
  /\ UNCHANGED <<now, netVars, uiVars>>

\* mvb_sim.simulate_tcms: a frame reaches `for msg in received_messages`.
MvbSimBegin ==
  /\ tick.pc = "idle"
  /\ ~crashed
  /\ now < MaxInterleaveClock
  /\ now' = now + 1
  /\ tick.program \in {"", "mvb_sim"}
  /\ tick' = [tick EXCEPT !.pc = "for", !.idx = 0, !.processed = <<>>,
                          !.program = "mvb_sim"]
  /\ SetNodeState(NodeState)
  /\ UNCHANGED <<netVars, uiVars>>

\* The list iterator hands out received_messages[idx] while idx is inside
\* the list as it is now; the body appends to processed_messages and
\* dispatches.  An exception in the body leaves the loop and the frame.
MvbSimForNext ==
  /\ tick.pc = "for"
  /\ ~crashed
  /\ IF tick.idx < Len(received_messages)
     THEN LET msg == received_messages[tick.idx + 1] IN
          /\ SetNodeState(MvbSimDispatch(NodeStateNow, msg))
          /\ tick' = [tick EXCEPT !.idx = @ + 1, !.processed = Append(@, msg),
                                  !.handled = Append(@, msg.id)]
     ELSE /\ tick' = [tick EXCEPT !.pc = "remove", !.idx = 0]
          /\ UNCHANGED <<last_message, train, control, dispatched, crashed,
                         setter_calls>>
  /\ UNCHANGED <<now, netVars, uiVars>>

\* for msg in processed_messages: if msg in received_messages: remove
MvbSimRemove ==
  /\ tick.pc = "remove"
  /\ ~crashed
  /\ IF tick.processed = <<>>
     THEN /\ tick' = [tick EXCEPT !.pc = "copy"]
          /\ UNCHANGED received_messages
     ELSE LET after == RemoveProcessed(received_messages, Head(tick.processed)) IN
          /\ received_messages' = after
          /\ tick' = [tick EXCEPT !.processed = Tail(@),
                                  !.done = @ \o Gone(received_messages, after)]
  /\ UNCHANGED <<now, calls, websocket, transmissions, listener, conn,
                 connected_clients, peerSent, closes, last_message, train, control,
                 dispatched, crashed, setter_calls, uiVars>>

\* update_transmissions: for t in self.transmissions[:]
CopyTransmissions ==
  /\ tick.pc = "copy"
  /\ ~crashed
  /\ tick' = [tick EXCEPT !.pc = IF transmissions = <<>> THEN "idle" ELSE "update",
                          !.idx = 1, !.copy = IdsOf(transmissions)]
  /\ UNCHANGED <<now, netVars, last_message, train, control, dispatched, crashed,
                 setter_calls, uiVars>>

\* self.transmissions.remove(t): the first dict equal to t leaves the list
RemoveTransmission(ts, t) == RemoveAt(ts, FirstEqual(ts, t, SameTransmission))

\* t["progress"] += delta_time / TRANSMISSION_TIME for the dict copy[idx]:
\* the dict is the one the list holds, so the list sees its new progress.
AddProgress ==
  /\ tick.pc = "update"
  /\ ~crashed
  /\ transmissions' = [k \in 1..Len(transmissions) |->
                         IF transmissions[k].id = tick.copy[tick.idx]
                         THEN [transmissions[k] EXCEPT !.progress = @ + 1]
                         ELSE transmissions[k]]
  /\ tick' = [tick EXCEPT !.pc = "finished"]
  /\ UNCHANGED <<now, calls, websocket, received_messages, listener, conn,
                 connected_clients, peerSent, closes, last_message, train, control,
                 dispatched, crashed, setter_calls, uiVars>>

\* if t["progress"] >= 1.0: self.transmissions.remove(t), and the next t
RemoveFinished ==
  /\ tick.pc = "finished"
  /\ ~crashed
  /\ LET t == transmissions[CHOOSE k \in 1..Len(transmissions) :
                              transmissions[k].id = tick.copy[tick.idx]]
     IN  transmissions' = IF t.progress >= TRANSMISSION_TIME
                          THEN RemoveTransmission(transmissions, t)
                          ELSE transmissions
  /\ tick' = [tick EXCEPT !.pc = IF tick.idx = Len(tick.copy) THEN "idle" ELSE "update",
                          !.idx = @ + 1]
  /\ UNCHANGED <<now, calls, websocket, received_messages, listener, conn,
                 connected_clients, peerSent, closes, last_message, train, control,
                 dispatched, crashed, setter_calls, uiVars>>

\* What arrives from the relay and what the simulation sends in these runs:
\* brake commands, so that dicts equal to one another meet in the lists.
BrakeArrivals ==
  UNION { [1..n -> { <<"Control", "SimulationBus", "Brake", "Apply Brakes">>,
                     <<"Control", "SimulationBus", "Brake", "Release Brakes">> }] :
          n \in 0..MaxArrivals }

InterleaveInit ==
  /\ DrainInit
  /\ \E q \in BrakeArrivals : conn[1].down = Numbered(q)

InterleaveNext ==
  \/ Len(calls) < MaxSends /\ SendMessage(<<"Control", "Brake", "Apply Brakes">>)
  \/ \E i \in 1..Len(calls) : SendWake(i)
  \/ ListenerRecv
  \/ ProcessBegin
  \/ QueueEmpty
  \/ QueueGet
  \/ DispatchOne
  \/ MvbSimBegin
  \/ MvbSimForNext
  \/ MvbSimRemove
  \/ CopyTransmissions
  \/ AddProgress
  \/ RemoveFinished

InterleaveSpec == InterleaveInit /\ [][InterleaveNext]_vars

IsPrefix(a, b) == Len(a) <= Len(b) /\ SubSeq(b, 1, Len(a)) = a

\* The dicts the listener and the echo have put so far, in the order of the
\* puts, as far as the lists still tell: those taken out, then the inbox.
PutLine == tick.done \o IdsOf(received_messages)

BetweenDrains == tick.pc \in {"idle", "empty", "copy", "update", "finished"}

\* C28: shared state under interleaving -- whatever the order in which the
\* steps of the asyncio thread and of the tick loop follow one another, no
\* dict leaves the line of puts or changes its place in it, the dicts
\* dispatched are the head of that line in its order (none skipped, none
\* twice), once a drain is over every dict taken out of the inbox has been
\* dispatched, and a transmission leaves the in-flight list only with a
\* progress of at least 1.0.
C28_SafeUnderInterleaving ==
  [][/\ IsPrefix(PutLine, PutLine')
     /\ IsPrefix(tick'.handled, PutLine')
     /\ BetweenDrains' => tick'.handled = tick'.done
     /\ \A k \in 1..Len(transmissions) :
          (\A j \in 1..Len(transmissions') :
             transmissions'[j].id # transmissions[k].id)
          => transmissions[k].progress >= TRANSMISSION_TIME]_vars

\* simulation.py: the update loop holds a transmission that has finished
\* and is about to remove it, the list holds one appended after the copy,
\* two dicts have been dispatched and one has been put since.
C28_Witness ==
  /\ tick.program = "simulation"
  /\ tick.pc = "finished"
  /\ Len(tick.handled) >= 2
  /\ received_messages # <<>>
  /\ \E k \in 1..Len(transmissions) :
       /\ transmissions[k].id = tick.copy[tick.idx]
       /\ transmissions[k].progress >= TRANSMISSION_TIME
  /\ \E k \in 1..Len(transmissions) :
       \A j \in 1..Len(tick.copy) : tick.copy[j] # transmissions[k].id

\* mvb_sim.py: the removal after the loop is under way, and the list holds a
\* dict equal to a processed one that arrived after the loop had ended.
C28_WitnessMvbSim ==
  /\ tick.program = "mvb_sim"
  /\ tick.pc = "remove"
  /\ tick.processed # <<>>
  /\ Len(received_messages) > Len(tick.processed)
  /\ SameDict(received_messages[Len(received_messages)], Head(tick.processed))

\* ========================================================================
\* simulation.main: the frame from handle_station_approach to
\* handle_station_actions
\* ========================================================================
MaxApproachClock == 165  \* last instant of the clock in the runs of a train under way
MaxArrivalClock == 15    \* last instant of the clock in the runs of a train that arrives
MaxFrameSends == 3       \* send_message_func calls after which no button is clicked
UnderWayAt == 150        \* the instant at which the runs of a train under way begin
UnderWayDistance == 2550000  \* where the train is at that instant: 255 pixels

\* The control unit and the train together, as the two handlers see them.
MainState ==
  [panel |-> panel, outbox |-> outbox, returned |-> returned, station |-> station,
   train |-> train]

SetMainState(st) ==
  /\ SetUiState(st)
  /\ train' = st.train

\* min([dist for dist in distances_to_stations if dist > 0])
DistanceToNextStop(distance_traveled) ==
  LET total == STATION_DISTANCE * 3
      current_pos == distance_traveled % total
      ahead == {d \in {(pos - current_pos) % total :
                         pos \in {0, STATION_DISTANCE, STATION_DISTANCE * 2}} : d > 0}
  IN CHOOSE d \in ahead : \A e \in ahead : d <= e

\* distance_to_next_stop <= (train.speed ** 2) / (2 * DECELERATION) + 20 and
\* train.speed > 2, in units of 1/10000 pixel and of 1/1000 m/s
BrakingPoint(distance_to_next_stop, speed) ==
  /\ distance_to_next_stop <= (speed * speed) \div 2400 + 200000
  /\ speed > 2000

\* Lines 123-126: approaching_station = True, the command, brakes_applied.
Marked(st, r) ==
  [r EXCEPT !.panel.brakes_applied = TRUE,
            !.panel.display_message = "Approaching station, braking"]

handle_station_approach(st) ==
  IF ~st.station.at_station /\ ~st.train.emergency_stop /\ ~st.station.leaving_station
  THEN LET distance_to_next_stop == DistanceToNextStop(st.station.distance_traveled)
           a == IF /\ BrakingPoint(distance_to_next_stop, st.station.speed)
                   /\ ~st.panel.approaching_station
                THEN Marked(st, send_command([st EXCEPT !.panel.approaching_station = TRUE],
                                             "Brake", "Apply Brakes"))
                ELSE st
       IN IF distance_to_next_stop < 100000 /\ a.station.speed < 5000
          THEN [send_command([a EXCEPT !.station.speed = 0, !.train.target_speed = "0.0"],
                             "Traction", "Set Target Speed:0")
                  EXCEPT !.panel.approaching_station = FALSE,
                         !.panel.display_message = "Arrived at station"]
          ELSE a
  ELSE st

\* handle_station_actions(train, control_unit, previous_at_station)
handle_station_actions(st, previous_at_station) ==
  IF st.station.at_station /\ ~previous_at_station /\ st.station.speed < EPSILON
  THEN [DoorCommands(st, "Open", 0)
          EXCEPT !.panel.display_message = "At station, opening doors"]
  ELSE st

\* main, line 270
HandleStationApproach ==
  /\ tick.pc = "idle"
  /\ ~crashed
  /\ SetMainState(handle_station_approach(MainState))
  /\ tick' = [tick EXCEPT !.pc = "events"]
  /\ UNCHANGED <<now, netVars, last_message, control, dispatched, crashed, setter_calls,
                 sensors, reading>>

NoClick == "(no click)"

\* main, line 273: handle_events, with one click or none
HandleEvents(button) ==
  /\ tick.pc = "events"
  /\ button = NoClick \/ Len(outbox) < MaxFrameSends
  /\ SetMainState(on_button_click(MainState, button))
  /\ tick' = [tick EXCEPT !.pc = "update"]
  /\ UNCHANGED <<now, netVars, last_message, control, dispatched, crashed, setter_calls,
                 sensors, reading>>

\* main, lines 284-285: train.update(delta_time), then handle_station_actions;
\* the frame ends and the clock moves on.
UpdateAndStationActions(step, wind_effect) ==
  /\ tick.pc = "update"
  /\ LET r == update(train, station, Min2(step, 1), wind_effect, now)
         st == handle_station_actions(
                 [MainState EXCEPT !.train = r.train, !.station = r.station],
                 tick.previous_at_station)
     IN  /\ SetMainState(st)
         /\ tick' = [tick EXCEPT !.pc = "idle",
                                 !.previous_at_station = st.station.at_station]
  /\ now' = now + step
  /\ UNCHANGED <<netVars, last_message, control, dispatched, crashed, setter_calls,
                 sensors, reading>>

\* The train 15 s after Start Moving: at cruising speed, 45 pixels before
\* the second station.
UnderWayInit ==
  /\ now = UnderWayAt
  /\ calls = <<>>
  /\ websocket = None
  /\ received_messages = <<>>
  /\ transmissions = <<>>
  /\ listener = [pc |-> "receive", ws |-> None, wake |-> 0]
  /\ conn = [c \in ConnIds |-> FreeConn]
  /\ connected_clients = [n \in RelayNames |-> None]
  /\ peerSent = 0
  /\ closes = 0
  /\ last_message = [a \in ActuatorNames |->
                       IF a = "Traction" THEN "Set Target Speed:22.22" ELSE "(None)"]
  /\ train = [target_speed |-> "22.22", brakes_applied |-> FALSE, emergency_stop |-> FALSE,
              doors |-> [i \in 0..(NUM_DOORS - 1) |-> FALSE]]
  /\ control = [current_speed |-> "22.22",
                door_states |-> [i \in 0..(NUM_DOORS - 1) |-> FALSE],
                passengers |-> "0", at_station |-> FALSE]
  /\ dispatched = <<>>
  /\ crashed = FALSE
  /\ tick = NewTick
  /\ sensors = [s \in SensorNames |-> NewSensor]
  /\ reading = [s \in SensorNames |-> IF s = "Speed" THEN "Speed:22.22" ELSE "Station:No"]
  /\ outbox = <<>>
  /\ panel = [NewPanel EXCEPT
                !.last_commands = Recorded(@, CommandKey("Traction", "Set Target Speed:22.22"), 0)]
  /\ station = [NewTrain EXCEPT !.speed = 22220, !.distance_traveled = UnderWayDistance]
  /\ returned = [target |-> "", message |-> "", value |-> FALSE]
  /\ setter_calls = <<>>

ApproachNext ==
  \/ HandleStationApproach
  \/ \E b \in Buttons \cup {NoClick} : HandleEvents(b)
  \/ \E step \in FrameSteps, w \in Winds :
       now + step <= MaxApproachClock /\ UpdateAndStationActions(step, w)
  \/ \E k \in 1..Len(outbox) : CommandDelivered(k)

ApproachSpec == UnderWayInit /\ [][ApproachNext]_vars

\* The step is a call of handle_station_approach.
ApproachCall == tick.pc = "idle" /\ tick'.pc = "events"

BrakeCommand == Sent("Control", "Brake", "Apply Brakes")

\* The envelopes the step has sent.
SentByStep == SubSeq(outbox', Len(outbox) + 1, Len(outbox'))

\* C29: automatic approach braking is commanded -- a call of
\* handle_station_approach that marks the train as approaching (with
\* approaching_station and brakes_applied set) has sent "Apply Brakes" to
\* Brake, and a call that finds approaching_station set sends no such
\* envelope.
C29_ApproachBrakingCommanded ==
  [][ApproachCall =>
       /\ (~panel.approaching_station /\ panel'.approaching_station
             /\ panel'.brakes_applied)
          => \E k \in 1..Len(SentByStep) : SentByStep[k] = BrakeCommand
       /\ panel.approaching_station
          => \A k \in 1..Len(SentByStep) : SentByStep[k] # BrakeCommand]_vars

\* C29, its second half: a call of handle_station_approach that finds
\* approaching_station set sends no "Apply Brakes".
C29_NotSentAgain ==
  [][(ApproachCall /\ panel.approaching_station)
       => \A k \in 1..Len(SentByStep) : SentByStep[k] # BrakeCommand]_vars

\* ------------------------------------------------------------------------
\* The frames of a train that stands at the first station from the start
\* ------------------------------------------------------------------------
ArrivalNext ==
  \/ HandleStationApproach
  \/ \E b \in Buttons \cup {NoClick} : HandleEvents(b)
  \/ \E step \in FrameSteps, w \in Winds :
       now + step <= MaxArrivalClock /\ UpdateAndStationActions(step, w)
  \/ \E k \in 1..Len(outbox) : CommandDelivered(k)

ArrivalSpec == Init /\ [][ArrivalNext]_vars

\* The step is train.update followed by handle_station_actions.
StationActionsCall == tick.pc = "update" /\ tick'.pc = "idle"

OpenDoorCommand(i) ==
  Sent("Control", "DoorActuator" \o DoorText(i), "Open Door" \o DoorText(i))

\* C30: door sequencing on arrival -- handle_station_actions sends the
\* "Open Door<i>" commands of all NUM_DOORS doors at the tick at which
\* at_station goes from false to true with a speed below 0.1, and sends none
\* of them at any other tick.
C30_DoorsOnArrival ==
  [][StationActionsCall =>
       IF ~station.at_station /\ station'.at_station /\ station'.speed < EPSILON
       THEN \A i \in 0..(NUM_DOORS - 1) :
              \E k \in 1..Len(SentByStep) : SentByStep[k] = OpenDoorCommand(i)
       ELSE \A i \in 0..(NUM_DOORS - 1) :
              \A k \in 1..Len(SentByStep) : SentByStep[k] # OpenDoorCommand(i)]_vars

\* C30, its second half: no "Open Door<i>" from handle_station_actions at a
\* tick at which at_station does not go from false to true.
C30_NoneAtOtherTicks ==
  [][(StationActionsCall /\ ~(~station.at_station /\ station'.at_station))
       => \A i \in 0..(NUM_DOORS - 1) :
            \A k \in 1..Len(SentByStep) : SentByStep[k] # OpenDoorCommand(i)]_vars

\* ========================================================================
\* Two commands to one actuator, with their echoes and relayed copies
\* ========================================================================
\* What Control issues: a command, then the one that undoes it.
CommandPairs ==
  { <<"Brake", "Apply Brakes", "Release Brakes">>,
    <<"DoorActuator0", "Open Door0", "Close Door0">> }

\* The bus connected and registered, nothing on its way.
ConnectedInit ==
  /\ DrainInit
  /\ conn[1].down = <<>>

IssueFirst(p) ==
  /\ calls = <<>>
  /\ SendMessage(<<"Control", p[1], p[2]>>)

IssueSecond(p) ==
  /\ Len(calls) = 1
  /\ calls[1].target = p[1]
  /\ calls[1].message = p[2]
  /\ SendMessage(<<"Control", p[1], p[3]>>)

LastCommandNext ==
  \/ \E p \in CommandPairs : IssueFirst(p)
  \/ \E p \in CommandPairs : IssueSecond(p)
  \/ \E i \in 1..Len(calls) : SendWake(i)
  \/ \E c \in ConnIds : HandlerRecv(c)
  \/ \E c \in ConnIds : HandlerForward(c)
  \/ ListenerRecv
  \/ Drain
  \/ Tick

LastCommandSpec == ConnectedInit /\ [][LastCommandNext]_vars

\* Every copy of every command issued has been delivered or lost.
AllCopiesSettled ==
  /\ \A i \in 1..Len(calls) : calls[i].pc \in {"sent", "lost"}
  /\ \A c \in ConnIds : conn[c].up = <<>> /\ conn[c].down = <<>> /\ conn[c].hpc # "sleep"
  /\ received_messages = <<>>

\* The train field the actuator drives says what the command asks for.
Reflects(target, message) ==
  CASE message = "Apply Brakes" -> train.brakes_applied
    [] message = "Release Brakes" -> ~train.brakes_applied
    [] message = "Open Door0" -> train.doors[0]
    [] message = "Close Door0" -> ~train.doors[0]
    [] OTHER -> TRUE

\* C31: last command wins at the actuator -- once Control has issued its
\* commands to one actuator and every copy of them, echo or relayed, has been
\* delivered or lost, the train field of that actuator says what the last
\* command issued asks for.
C31_LastCommandWins ==
  (Len(calls) = 2 /\ AllCopiesSettled)
    => Reflects(calls[2].target, calls[2].message)

\* ========================================================================
\* Commands delivered to the actuators of a running train
\* ========================================================================
MaxDeliveries == 4      \* receive_message calls in one run
MaxDeliveryClock == 20  \* last instant of the clock in these runs

\* What process_network_messages hands to the actuators.
Deliveries ==
  { <<"Traction", "Set Target Speed:22.22">>, <<"Traction", "Set Target Speed:0">>,
    <<"Emerg", "Emergency Stop 1">>, <<"Emerg", "Emergency Stop 2">> }

\* One receive_message call; the log of calls is kept over the run.
Deliver(a, message) ==
  /\ Len(dispatched) < MaxDeliveries
  /\ SetNodeState(ReceiveMessage(NodeStateNow, a, a,
                                 Msg(Len(dispatched) + 1, "Control", "SimulationBus",
                                     a, message)))
  /\ UNCHANGED <<now, netVars, uiVars, tick>>

DeliveryFrame(step, wind_effect) ==
  /\ now + step <= MaxDeliveryClock
  /\ Frame(step, wind_effect)

DeliveryNext ==
  \/ \E d \in Deliveries : Deliver(d[1], d[2])
  \/ \E step \in FrameSteps, w \in Winds : DeliveryFrame(step, w)

DeliverySpec == Init /\ [][DeliveryNext]_vars

\* The step is a receive_message call on node a with the payload message.
Delivered(a, message) ==
  /\ Len(dispatched') = Len(dispatched) + 1
  /\ dispatched'[Len(dispatched')].node = a
  /\ dispatched'[Len(dispatched')].message = message

\* C32: a delivered traction command takes effect -- right after
\* "Set Target Speed:v" is delivered to Traction, target_speed is v, whatever
\* Traction received before and whatever has set target_speed since.
C32_TractionTakesEffect ==
  [][/\ Delivered("Traction", "Set Target Speed:22.22") => train'.target_speed = "22.22"
     /\ Delivered("Traction", "Set Target Speed:0") => Milli(train'.target_speed) = 0]_vars

\* ========================================================================
\* The connections of the bus
\* ========================================================================
\* The connections connect() has opened for the bus and nothing has closed.
BusConnections == {c \in ConnIds : conn[c].owner = "bus" /\ conn[c].st = "open"}

\* C33: single live connection -- the bus holds at most one open connection
\* to the relay, and once the relay maps "SimulationBus" to a connection
\* the listener that waits in recv() waits on that connection.
C33_SingleLiveConnection ==
  /\ Cardinality(BusConnections) <= 1
  /\ (listener.pc = "recv" /\ connected_clients["SimulationBus"] # None)
       => connected_clients["SimulationBus"] = listener.ws

\* C33 for the runs so far in which connect() has been called once at most.
C33_SingleAfterOneConnect ==
  Cardinality({c \in ConnIds : conn[c].owner = "bus"}) <= 1
    => C33_SingleLiveConnection

\* ========================================================================
\* The relay when it cannot forward
\* ========================================================================
\* The step ends the sleep of the handler of c: the handler looks its
\* target up and forwards, or cannot.
ForwardStep(c) == conn[c].hpc = "sleep" /\ conn'[c].hpc # "sleep"

\* The connection the relay maps the target of c's current message to.
TargetConn(c) ==
  IF conn[c].cur.target \in DOMAIN connected_clients
  THEN connected_clients[conn[c].cur.target] ELSE None

CannotForward(c) == TargetConn(c) = None \/ conn[TargetConn(c)].st # "open"

\* The handler of c goes on with its loop and the registry is as it was.
HandlerGoesOn(c) ==
  /\ conn'[c].hpc = "loop"
  /\ conn'[c].st = conn[c].st
  /\ conn'[c].up = conn[c].up
  /\ connected_clients' = connected_clients

\* C34: relay forwarding failure is local -- when the handler of a live
\* connection cannot forward a message, because no connection is registered
\* under the target or because that connection has closed, the message is
\* dropped and nothing else: the handler goes on with the messages behind
\* it and the registrations stay.
C34_ForwardFailureLocal ==
  [][\A c \in ConnIds :
       (ForwardStep(c) /\ conn[c].st = "open" /\ CannotForward(c))
         => /\ HandlerGoesOn(c)
            /\ \A d \in ConnIds : conn'[d].down = conn[d].down]_vars

\* C34 for a target under which no connection is registered
C34_UnknownTargetLocal ==
  [][\A c \in ConnIds :
       (ForwardStep(c) /\ conn[c].st = "open" /\ TargetConn(c) = None)
         => /\ HandlerGoesOn(c)
            /\ \A d \in ConnIds : conn'[d].down = conn[d].down]_vars

\* A handler about to find that no connection is registered under its target.
C34_UnknownTargetCase ==
  \E c \in ConnIds :
    conn[c].hpc = "sleep" /\ conn[c].st = "open" /\ conn[c].wake <= now /\ TargetConn(c) = None

\* ------------------------------------------------------------------------
\* The relay between the bus and a second client
\* ------------------------------------------------------------------------
\* What the second client sends: an envelope for itself that names the bus
\* inside, one for the bus that names the client inside, one for nobody.
RoutingSends ==
  { <<"Control", "Peer", "SimulationBus", "Open Door0">>,
    <<"Control", "SimulationBus", "Peer", "Open Door0">>,
    <<"Control", "Ghost", "Peer", "Apply Brakes">> }

RoutingNext ==
  \/ \E e \in SimSends : Len(calls) < MaxSends /\ SendMessage(e)
  \/ \E i \in 1..Len(calls) : SendWake(i)
  \/ PeerConnect("Peer")
  \/ \E c \in ConnIds, e \in RoutingSends : PeerSend(c, e)
  \/ \E c \in ConnIds : HandlerRegister(c)
  \/ \E c \in ConnIds : HandlerRecv(c)
  \/ \E c \in ConnIds : HandlerForward(c)
  \/ ListenerRecv
  \/ Tick

RoutingSpec == ConnectedInit /\ [][RoutingNext]_vars

RECURSIVE IsSubSeq(_, _)
\* a is b with some items left out
IsSubSeq(a, b) ==
  IF a = <<>> THEN TRUE
  ELSE IF b = <<>> THEN FALSE
  ELSE IF Head(a) = Head(b) THEN IsSubSeq(Tail(a), Tail(b))
  ELSE IsSubSeq(a, Tail(b))

\* The envelopes of the bus that the relay holds or has forwarded and the
\* listener has not read, the oldest first: forwarded, in the handler's
\* hands, not yet read by the handler.
BusPipe ==
  SelectSeq(IdsOf(conn[1].down), LAMBDA i : i \in 1..Len(calls))
    \o (IF conn[1].hpc = "sleep" THEN <<conn[1].cur.id>> ELSE <<>>)
    \o IdsOf(conn[1].up)

\* C35: relay routing and order -- a handler that forwards appends the
\* message as it received it to the connection registered under the outer
\* target and touches no other connection; it takes the messages of its
\* connection one at a time from the head; and the messages of one
\* connection stay in the order in which they were sent on it.
C35_RoutingAndOrder ==
  [][/\ \A c \in ConnIds :
          (ForwardStep(c) /\ conn[c].st = "open") =>
            IF CannotForward(c)
            THEN \A d \in ConnIds : conn'[d].down = conn[d].down
            ELSE /\ conn'[TargetConn(c)].down = Append(conn[TargetConn(c)].down, conn[c].cur)
                 /\ \A d \in ConnIds \ {TargetConn(c)} : conn'[d].down = conn[d].down
     /\ \A c \in ConnIds :
          (conn'[c].hpc = "sleep" /\ conn[c].hpc # "sleep") =>
            conn'[c].cur = Head(conn[c].up) /\ conn'[c].up = Tail(conn[c].up)
     /\ IsSubSeq(BusPipe', IdsOf(transmissions'))]_vars

\* The relay has forwarded both envelopes of the bus and the listener has
\* read them, the later one behind the earlier one, and the relay has handed
\* the second client the envelope addressed to it that names the bus inside.
C35_Witness ==
  /\ Len(transmissions) = 2
  /\ \E j, k \in 1..Len(received_messages) :
       /\ j < k
       /\ received_messages[j].via = "wire" /\ received_messages[k].via = "wire"
       /\ received_messages[j].id = transmissions[1].id
       /\ received_messages[k].id = transmissions[2].id
  /\ \E c \in ConnIds :
       /\ conn[c].owner = "peer"
       /\ conn[c].down # <<>>
       /\ Head(conn[c].down).real_target = "SimulationBus"

\* ------------------------------------------------------------------------
\* The doors and the traction: the panel, the actuators and the train
\* ------------------------------------------------------------------------
MaxInterlockClock == 10   \* the frames end here (tenths of a second)
MaxInterlockSends == 6    \* no click once the control unit has sent this much

InterlockButtons == {"Start Moving", "Open Doors", "Close Doors"}

\* handle_events with a click on one of the buttons of the interlock
InterlockClick(button) ==
  /\ tick.pc = "events"
  /\ Len(outbox) < MaxInterlockSends
  /\ SetMainState(on_button_click(MainState, button))
  /\ tick' = [tick EXCEPT !.pc = "update"]
  /\ UNCHANGED <<now, netVars, last_message, control, dispatched, crashed, setter_calls,
                 sensors, reading>>

\* The report of the sensor of door 0 reaches the control unit: the sensor
\* reads train.doors[0] and the bus delivers the reading at once.
DoorReport ==
  /\ ~crashed
  /\ control' = ControlReceive(control,
                   IF train.doors[0] THEN "Door0:Open" ELSE "Door0:Closed").cu
  /\ control' # control
  /\ UNCHANGED <<now, netVars, last_message, train, dispatched, crashed, setter_calls,
                 tick, uiVars>>

InterlockNext ==
  \/ HandleStationApproach
  \/ HandleEvents(NoClick)
  \/ \E b \in InterlockButtons : InterlockClick(b)
  \/ \E step \in FrameSteps, w \in Winds :
       now + step <= MaxInterlockClock /\ UpdateAndStationActions(step, w)
  \/ \E k \in 1..Len(outbox) : CommandDelivered(k)
  \/ DoorReport

InterlockSpec == Init /\ [][InterlockNext]_vars

\* The step sends the command of "Start Moving".
StartMovingSent ==
  /\ Len(outbox') > Len(outbox)
  /\ \E k \in (Len(outbox) + 1)..Len(outbox') :
       /\ outbox'[k].sender = "Control"
       /\ outbox'[k].target = "Traction"
       /\ outbox'[k].message = "Set Target Speed:" \o CRUISING_SPEED

\* C36: traction/door interlock on the train -- the command of "Start
\* Moving" is never sent while a door of the train is open.
C36_TractionDoorInterlock ==
  [][StartMovingSent => \A i \in 0..(NUM_DOORS - 1) : ~train.doors[i]]_vars

\* C37: doors stay closed while moving -- a door of the train changes to
\* open only at a moment when the speed of the train is below 1.0 m/s.
C37_DoorsClosedWhileMoving ==
  [][\A i \in 0..(NUM_DOORS - 1) :
       (~train.doors[i] /\ train'.doors[i]) => station.speed < 1000]_vars

\* ------------------------------------------------------------------------
\* The sensors, the bus, the relay and the control unit over time
\* ------------------------------------------------------------------------
MaxConvergeClock == 23   \* the clock stops here: after the second sample of
                         \* the slowest sensor and the longest way of a report

\* The reading takes its value before the first frame and keeps it.
ReadingSettles(s, r) ==
  /\ now = 0
  /\ calls = <<>>
  /\ ReadingChange(s, r)

\* SensorNode.update in a frame, with send_network_message as its
\* send_message_func.
SensorFrame(s) ==
  /\ ~crashed
  /\ Len(calls) < MaxSends \/ SensorSends(sensors[s], s, reading[s], now) = <<>>
  /\ sensors' = [sensors EXCEPT ![s] = SensorAfterUpdate(@, s, reading[s], now)]
  /\ outbox' = outbox \o SensorSends(sensors[s], s, reading[s], now)
  /\ BusTakes(SensorSends(sensors[s], s, reading[s], now))
  /\ UNCHANGED <<now, websocket, transmissions, listener, conn, connected_clients,
                 peerSent, closes, last_message, train, control, dispatched, crashed,
                 setter_calls, tick, reading, panel, station, returned>>

\* Time goes on when every coroutine waits and the tick loop has emptied
\* the inbox and sampled the sensors.
ConvergeElapse ==
  /\ ~CoroutineReady
  /\ received_messages = <<>>
  /\ \A s \in SensorNames : SensorAfterUpdate(sensors[s], s, reading[s], now) = sensors[s]
  /\ now < MaxConvergeClock
  /\ now' = now + 1
  /\ UNCHANGED <<netVars, nodeVars>>

ConvergeNext ==
  \/ \E s \in SensorNames : \E r \in Readings(s) : ReadingSettles(s, r)
  \/ \E s \in SensorNames : SensorFrame(s)
  \/ \E i \in 1..Len(calls) : SendWake(i)
  \/ \E c \in ConnIds : HandlerRecv(c)
  \/ \E c \in ConnIds : HandlerForward(c)
  \/ ListenerRecv
  \/ Drain
  \/ ConvergeElapse

\* The tick loop runs its frames, the event loop runs every coroutine that
\* can go on, and time goes on.
ConvergeSpec ==
  /\ ConnectedInit
  /\ [][ConvergeNext]_vars
  /\ WF_vars(\E s \in SensorNames : SensorFrame(s))
  /\ WF_vars(\E i \in 1..Len(calls) : SendWake(i))
  /\ WF_vars(\E c \in ConnIds : HandlerRecv(c))
  /\ WF_vars(\E c \in ConnIds : HandlerForward(c))
  /\ WF_vars(ListenerRecv)
  /\ WF_vars(Drain)
  /\ WF_vars(ConvergeElapse)

\* Control's view of the reading of sensor s is the reading: receiving it
\* would change nothing.
ViewAgrees(s) == ControlReceive(control, reading[s]).cu = control

\* C38: Control's view converges -- if the reading of a sensor stays at a
\* value from some point on, Control's view of it eventually is that value.
C38_ViewConverges ==
  \A s \in SensorNames : \A v \in Readings(s) :
    (<>[](reading[s] = v)) => <>(reading[s] = v /\ ViewAgrees(s))

\* The view converges unless a report was lost: in the end Control's view
\* is the reading, or a report of the sensor never reached the inbox.
C38_ConvergesUnlessLost ==
  \A s \in SensorNames :
    <>[](\/ ViewAgrees(s)
         \/ \E i \in 1..Len(calls) : calls[i].sender = s /\ calls[i].placed = 0)

\* ------------------------------------------------------------------------
\* The emergency stop: the clicks, the deliveries and the train
\* ------------------------------------------------------------------------
MaxEmergencyDeliveries == 4   \* receive_message calls in one run
MaxEmergencyClock == 12       \* the frames end here (tenths of a second)

EmergencyButtons == {"Emergency Stop", "Start Moving"}

\* One copy of an envelope the control unit has sent reaches its actuator:
\* the local copy or the relayed one, now or later, in any order.
CopyDelivered(k) ==
  /\ ~crashed
  /\ Len(dispatched) < MaxEmergencyDeliveries
  /\ outbox[k].target \in ActuatorNames
  /\ SetNodeState(ReceiveMessage(NodeStateNow, outbox[k].target, outbox[k].target,
                                 Msg(k, "Control", "SimulationBus", outbox[k].target,
                                     outbox[k].message)))
  /\ UNCHANGED <<now, netVars, uiVars, tick>>

EmergencyFrame(step, wind_effect) ==
  /\ now + step <= MaxEmergencyClock
  /\ Frame(step, wind_effect)

EmergencyNext ==
  \/ \E b \in EmergencyButtons : ButtonClick(b)
  \/ \E k \in 1..Len(outbox) : CopyDelivered(k)
  \/ \E step \in FrameSteps, w \in Winds : EmergencyFrame(step, w)

EmergencySpec == Init /\ [][EmergencyNext]_vars

\* The step is a click on "Emergency Stop".
EmergencyClicked == panel'.emergency_stops_count = panel.emergency_stops_count + 1

\* The step is a receive_message call on the Emerg actuator.
EmergReceives ==
  /\ Len(dispatched') = Len(dispatched) + 1
  /\ dispatched'[Len(dispatched')].node = "Emerg"

MaxStopClock == 160   \* no frame starts later unless a stop is under way

\* train.update in a frame; the frames go on while a stop is under way.
StopFrame(step, wind_effect) ==
  /\ now + step <= MaxStopClock \/ train.emergency_stop
  /\ Frame(step, wind_effect)

StopNext ==
  \/ \E d \in Deliveries : Deliver(d[1], d[2])
  \/ \E step \in FrameSteps, w \in Winds : StopFrame(step, w)

\* What StopFrame does to the clock.  train.update never blocks, so a
\* frame can be taken exactly when this step can, and the steps of the runs
\* that move the clock are the frames.
FrameClock ==
  \E step \in FrameSteps :
    /\ now + step <= MaxStopClock \/ train.emergency_stop
    /\ now' = now + step

\* The train runs at cruising speed; the tick loop goes on calling
\* train.update.
StopSpec ==
  /\ UnderWayInit
  /\ [][StopNext]_vars
  /\ WF_now(FrameClock)

\* The step is a call of train.update.
UpdateCall == now' > now

\* C40: the emergency stop runs to completion and clears -- while
\* emergency_stop is set, every update leaves target_speed at 0 and does
\* not increase the speed, and no other step changes the speed;
\* emergency_stop is cleared by an update that leaves the speed at 0 and by
\* nothing else, and that update clears it; and with the updates going on
\* the speed reaches 0 and emergency_stop is cleared.
C40_EmergencyStopCompletes ==
  /\ [][/\ (train.emergency_stop /\ UpdateCall) =>
             /\ train'.target_speed = "0.0"
             /\ station'.speed <= station.speed
             /\ train'.emergency_stop = (station'.speed # 0)
        /\ (train.emergency_stop /\ ~UpdateCall) => station'.speed = station.speed
        /\ (train.emergency_stop /\ ~train'.emergency_stop) =>
             UpdateCall /\ station'.speed = 0]_vars
  /\ (train.emergency_stop ~> (station.speed = 0 /\ ~train.emergency_stop))

\* A train that has moved stands still with emergency_stop cleared: nothing
\* but an emergency stop brings it to rest in these runs.
C40_Witness ==
  /\ station.speed = 0
  /\ station.distance_traveled > UnderWayDistance
  /\ ~train.emergency_stop
  /\ ~train.brakes_applied
  /\ last_message["Emerg"] # "(None)"

\* An emergency stop that one update cannot complete is under way.
C40_LongStop == train.emergency_stop /\ station.speed > EMERGENCY_DECEL

====
